---- MODULE Spec2Model ----
(***************************************************************************)
(* Pythia MCP server: the bounded-concurrency scan engine (parallelLimit), *)
(* the tool-call handler that drives the Lilith engine through it, and the *)
(* validation layer in front of both.                                      *)
(*                                                                         *)
(* Node runs the program on one thread: everything between two I/O         *)
(* completions (a synchronous stretch and the promise reactions it queues) *)
(* runs without interleaving, so one action of this module is one I/O      *)
(* completion together with all the code that runs because of it.          *)
(***************************************************************************)
EXTENDS Integers, Sequences, FiniteSets, TLC

\* ------------------------------------------------------------------ bounds
\* parallelLimit called directly: the most items, and the largest limit.
MaxItems == 6
MaxLimit == 2
\* The largest whole step count of the 1-D scan requests.
MaxSteps == 3
\* runLilith: the most "data" events of one process, and the number of clock
\* steps that make up the timeout.
MaxDataEvents == 3
MaxTicks == 3

\* ------------------------------------------------------ JavaScript values
\* Every JavaScript value of the model is a record with a type tag t.
Undefined == [t |-> "undefined"]
Null == [t |-> "null"]
Hole == [t |-> "hole"]            \* an array slot never assigned
NaN == [t |-> "nan"]
PosInf == [t |-> "inf"]
NegInf == [t |-> "ninf"]
Str(s) == [t |-> "string", s |-> s]
Err(kind) == [t |-> "error", kind |-> kind]

\* Values an opaque fn passed to parallelLimit may resolve with.
Values == {Str("v1"), Str("v2")}

\* Finite numbers are exact fractions n/d in lowest terms, d > 0 (the rounding
\* of IEEE doubles is not modelled).
Abs(x) == IF x < 0 THEN -x ELSE x

RECURSIVE GCD(_, _)
GCD(a, b) == IF b = 0 THEN a ELSE GCD(b, a % b)

Frac(n, d) ==
    LET g == GCD(Abs(n), Abs(d))
        sgn == IF d < 0 THEN -1 ELSE 1
    IN  [t |-> "num", n |-> sgn * (n \div g), d |-> sgn * (d \div g)]

IntNum(n) == Frac(n, 1)

\* typeof v === "number"
IsNumber(v) == v.t \in {"num", "nan", "inf", "ninf"}

\* Number.isFinite(v)
IsFinite(v) == v.t = "num"

\* Number.isNaN(v)
IsNaN(v) == v.t = "nan"

Sign(v) == CASE v.t = "inf" -> 1
             [] v.t = "ninf" -> -1
             [] v.t = "num" -> (IF v.n > 0 THEN 1 ELSE IF v.n < 0 THEN -1 ELSE 0)

InfOf(sgn) == IF sgn > 0 THEN PosInf ELSE NegInf

\* a + b on numbers
NumAdd(a, b) ==
    CASE IsNaN(a) \/ IsNaN(b) -> NaN
      [] IsFinite(a) /\ IsFinite(b) -> Frac(a.n * b.d + b.n * a.d, a.d * b.d)
      [] IsFinite(a) -> b
      [] IsFinite(b) -> a
      [] OTHER -> IF a = b THEN a ELSE NaN

\* -a
NumNeg(a) ==
    CASE IsNaN(a) -> NaN
      [] IsFinite(a) -> Frac(-a.n, a.d)
      [] OTHER -> InfOf(-Sign(a))

\* a - b
NumSub(a, b) == NumAdd(a, NumNeg(b))

\* a * b
NumMul(a, b) ==
    CASE IsNaN(a) \/ IsNaN(b) -> NaN
      [] IsFinite(a) /\ IsFinite(b) -> Frac(a.n * b.n, a.d * b.d)
      [] OTHER -> IF Sign(a) * Sign(b) = 0 THEN NaN ELSE InfOf(Sign(a) * Sign(b))

\* a / b (a zero divisor is +0: the model's subtractions never yield -0)
NumDiv(a, b) ==
    CASE IsNaN(a) \/ IsNaN(b) -> NaN
      [] IsFinite(a) /\ IsFinite(b) ->
           IF b.n # 0 THEN Frac(a.n * b.d, a.d * b.n)
           ELSE IF a.n = 0 THEN NaN ELSE InfOf(Sign(a))
      [] IsFinite(a) -> IntNum(0)
      [] IsFinite(b) -> InfOf(Sign(a) * (IF Sign(b) < 0 THEN -1 ELSE 1))
      [] OTHER -> NaN

\* a < b on numbers (false when either is NaN)
NumLt(a, b) ==
    CASE IsNaN(a) \/ IsNaN(b) -> FALSE
      [] IsFinite(a) /\ IsFinite(b) -> a.n * b.d < b.n * a.d
      [] a = b -> FALSE
      [] OTHER -> a = NegInf \/ b = PosInf

\* a > b, a >= b, a <= b
NumGt(a, b) == NumLt(b, a)

NumGe(a, b) == IsNumber(a) /\ IsNumber(b) /\ ~IsNaN(a) /\ ~IsNaN(b) /\ ~NumLt(a, b)

NumLe(a, b) == NumGe(b, a)

\* Relational operators on arbitrary values: a non-number operand of the
\* model (undefined, a non-numeric string) converts to NaN; null converts to 0.
ToNumber(v) == IF IsNumber(v) THEN v ELSE IF v = Null THEN IntNum(0) ELSE NaN

Lt(a, b) == NumLt(ToNumber(a), ToNumber(b))

Gt(a, b) == NumLt(ToNumber(b), ToNumber(a))

Ge(a, b) == NumGe(ToNumber(a), ToNumber(b))

\* Math.floor and Math.ceil of a finite number
Floor(v) == v.n \div v.d

Ceil(v) == -((-v.n) \div v.d)

VARIABLES
    tool,          \* request.params.name ("none": parallelLimit called directly)
    args,          \* request.params.arguments
    pc,            \* position of the handler: "received", "running", "done"
    response,      \* what the handler returned, or Undefined
    files,         \* the temp files that exist
    fsOps,         \* history: per temp file, the number of writes and of unlinks
    engineCalls,   \* history: the runLilith invocations (evaluation, dataset)
    log,           \* history: the settled fn calls of a direct call, in order
    items,         \* parallelLimit: items, indexed from 0
    limit,         \* parallelLimit: limit
    results,       \* parallelLimit: results, indexed from 0
    currentIndex,  \* parallelLimit: currentIndex
    workers,       \* parallelLimit: the worker() promises, indexed from 1
    fnState,       \* the fn call of each item: where it is suspended, how it settled
    fnCalls,       \* history: the (item, index) arguments of each fn invocation
    slotWrites,    \* history: number of assignments to results[index]
    plState,       \* the promise parallelLimit returned
    plValue,       \* what that promise settled with
    proc,          \* runLilith: the spawned process
    stdout,        \* runLilith: length of the captured stdout
    stderr,        \* runLilith: length of the captured stderr
    timer,         \* runLilith: the timeout timer
    promise,       \* runLilith: the promise it returned
    clock,         \* runLilith: milliseconds since the spawn
    dataEvents,    \* history: number of "data" events so far
    apiCache,      \* the entries of the API cache, in the Map's insertion order
    now,           \* Date.now()
    cacheOps,      \* history: number of cache operations and clock steps so far
    last,          \* history: the last cache operation, with the cache before it
    scans          \* the scan calls the server is executing, by request id

\* The state of a tool call and of the parallelLimit call inside it.
callVars == <<tool, args, pc, response, files, fsOps, engineCalls, log, items, limit,
              results, currentIndex, workers, fnState, fnCalls, slotWrites, plState, plValue>>

\* The state of one runLilith invocation.
lilithVars == <<proc, stdout, stderr, timer, promise, clock, dataEvents>>

\* The state of the server process that outlives a tool call.
serverVars == <<apiCache, now, cacheOps, last, scans>>

vars == <<callVars, lilithVars, serverVars>>

\* No runLilith invocation is looked at.
NoLilith ==
    /\ proc = [st |-> "none", code |-> "none", killed |-> FALSE, error |-> FALSE]
    /\ stdout = 0
    /\ stderr = 0
    /\ timer = "none"
    /\ promise = [st |-> "none", value |-> Undefined]
    /\ clock = 0
    /\ dataEvents = 0

\* The cache is empty and no scan call is looked at.
NoServer ==
    /\ apiCache = <<>>
    /\ now = 0
    /\ cacheOps = 0
    /\ last = [op |-> "none"]
    /\ scans = <<>>

\* ------------------------------------------------------------- helpers
Min(a, b) == IF a < b THEN a ELSE b

Length(f) == Cardinality(DOMAIN f)

\* An array literal a[0..n-1] given as a sequence.
ArrayOf(seq) == [i \in 0..(Len(seq) - 1) |-> seq[i + 1]]

\* F(v) with v evaluated once, whatever the number of times F uses it.
Apply(F(_), v) == CHOOSE y \in {F(x) : x \in {v}} : TRUE

\* A text whose characters matter is [t |-> "chars", c |-> <its characters>].
Chars(c) == [t |-> "chars", c |-> c]

RECURSIVE Digits(_)
\* The decimal digits of a natural number
Digits(n) ==
    LET d == <<"0", "1", "2", "3", "4", "5", "6", "7", "8", "9">>
    IN  IF n < 10 THEN <<d[n + 1]>> ELSE Digits(n \div 10) \o <<d[(n % 10) + 1]>>

\* String(unsafe), for a string or an integer
String(unsafe) ==
    IF unsafe.t = "chars" THEN unsafe.c
    ELSE IF unsafe.n < 0 THEN <<"-">> \o Digits(-unsafe.n) ELSE Digits(unsafe.n)

RECURSIVE Replace(_, _, _)
\* str.replace(/ch/g, by)
Replace(str, ch, by) ==
    IF str = <<>> THEN <<>>
    ELSE (IF Head(str) = ch THEN by ELSE <<Head(str)>>) \o Replace(Tail(str), ch, by)

AMP == <<"&", "a", "m", "p", ";">>
LT == <<"&", "l", "t", ";">>
GT == <<"&", "g", "t", ";">>
QUOT == <<"&", "q", "u", "o", "t", ";">>
APOS == <<"&", "a", "p", "o", "s", ";">>

\* A faulty variant of EscapeXml: the ampersand is replaced last.
EscapeXmlAmpersandLast(unsafe) ==
    LET EscAmp(str) == Replace(str, "&", AMP)
        EscLt(str) == Replace(str, "<", LT)
        EscGt(str) == Replace(str, ">", GT)
        EscQuot(str) == Replace(str, "\"", QUOT)
        EscApos(str) == Replace(str, "'", APOS)
    IN  Chars(Apply(EscAmp, Apply(EscApos, Apply(EscQuot, Apply(EscGt, Apply(EscLt, String(unsafe)))))))

\* escapeXml(unsafe)
EscapeXml(unsafe) ==
    LET EscAmp(str) == Replace(str, "&", AMP)
        EscLt(str) == Replace(str, "<", LT)
        EscGt(str) == Replace(str, ">", GT)
        EscQuot(str) == Replace(str, "\"", QUOT)
        EscApos(str) == Replace(str, "'", APOS)
    IN  Chars(Apply(EscApos, Apply(EscQuot, Apply(EscGt, Apply(EscLt, Apply(EscAmp, String(unsafe)))))))

\* ------------------------------------------------- chi-square functions
\* A double in the chi-square functions is its class: "nan", "ninf", "neg"
\* (finite, below 0), "zero", "pos" (finite, above 0) or "inf". An operation
\* yields the set of the classes that operands of the given classes can
\* produce: a finite result may overflow to an infinity or underflow to zero.
Doubles == {"nan", "ninf", "neg", "zero", "pos", "inf"}

Sgn(c) == IF c \in {"ninf", "neg"} THEN -1 ELSE 1

Mag(c) == CASE c = "zero" -> "zero" [] c \in {"neg", "pos"} -> "fin" [] OTHER -> "inf"

Signed(sg, m) ==
    CASE m = "zero" -> "zero"
      [] m = "fin" -> IF sg < 0 THEN "neg" ELSE "pos"
      [] OTHER -> IF sg < 0 THEN "ninf" ELSE "inf"

\* -c
FNeg(c) == IF c = "nan" THEN "nan" ELSE Signed(-Sgn(c), Mag(c))

\* Math.abs(c)
FAbs(c) == IF c = "nan" THEN "nan" ELSE Signed(1, Mag(c))

\* p * q
FMul(p, q) ==
    IF "nan" \in {p, q} THEN {"nan"}
    ELSE IF {Mag(p), Mag(q)} = {"zero", "inf"} THEN {"nan"}
    ELSE IF "zero" \in {Mag(p), Mag(q)} THEN {"zero"}
    ELSE IF "inf" \in {Mag(p), Mag(q)} THEN {Signed(Sgn(p) * Sgn(q), "inf")}
    ELSE {Signed(Sgn(p) * Sgn(q), m) : m \in {"zero", "fin", "inf"}}

\* p / q
FDiv(p, q) ==
    IF "nan" \in {p, q} THEN {"nan"}
    ELSE IF Mag(q) = "zero"
         THEN IF Mag(p) = "zero" THEN {"nan"} ELSE {Signed(Sgn(p), "inf")}
    ELSE IF Mag(q) = "inf"
         THEN IF Mag(p) = "inf" THEN {"nan"} ELSE {"zero"}
    ELSE IF Mag(p) = "zero" THEN {"zero"}
    ELSE IF Mag(p) = "inf" THEN {Signed(Sgn(p) * Sgn(q), "inf")}
    ELSE {Signed(Sgn(p) * Sgn(q), m) : m \in {"zero", "fin", "inf"}}

\* p + q
FAdd(p, q) ==
    IF "nan" \in {p, q} THEN {"nan"}
    ELSE IF Mag(p) = "inf" /\ Mag(q) = "inf" THEN (IF p = q THEN {p} ELSE {"nan"})
    ELSE IF Mag(p) = "inf" THEN {p}
    ELSE IF Mag(q) = "inf" THEN {q}
    ELSE IF p = "zero" THEN {q}
    ELSE IF q = "zero" THEN {p}
    ELSE IF p = q THEN {p, Signed(Sgn(p), "inf")}
    ELSE {"neg", "zero", "pos"}

\* p - q
FSub(p, q) == FAdd(p, FNeg(q))

\* Math.exp(c)
FExp(c) ==
    CASE c = "nan" -> {"nan"}
      [] c = "ninf" -> {"zero"}
      [] c = "neg" -> {"zero", "pos"}
      [] c = "zero" -> {"pos"}
      [] c = "pos" -> {"pos", "inf"}
      [] OTHER -> {"inf"}

\* Math.log(c)
FLog(c) ==
    CASE c \in {"nan", "ninf", "neg"} -> {"nan"}
      [] c = "zero" -> {"ninf"}
      [] c = "pos" -> {"neg", "zero", "pos"}
      [] OTHER -> {"inf"}

\* Math.sin(c)
FSin(c) ==
    CASE c \in {"nan", "ninf", "inf"} -> {"nan"}
      [] c = "zero" -> {"zero"}
      [] OTHER -> {"neg", "pos"}

\* p < q: the truth values the comparison can have
FLess(p, q) ==
    LET rank == [ninf |-> 1, neg |-> 2, zero |-> 3, pos |-> 4, inf |-> 5]
    IN  IF "nan" \in {p, q} THEN {FALSE}
        ELSE IF p = q THEN (IF Mag(p) = "fin" THEN {TRUE, FALSE} ELSE {FALSE})
        ELSE {rank[p] < rank[q]}

\* The images of an operation on sets of classes
Lift1(F(_), P) == UNION {F(p) : p \in P}

Lift2(F(_, _), P, Q) == UNION {F(p, q) : p \in P, q \in Q}

\* lnGamma(z) for z >= 0.5, or z NaN: the Lanczos sum is positive, so the
\* result is finite, or infinite when z is.
LnGammaDirect(z) ==
    CASE z = "nan" -> {"nan"}
      [] z = "inf" -> {"inf"}
      [] OTHER -> {"neg", "zero", "pos", "inf"}

\* lnGamma(z): below 0.5 the reflection formula
\* Math.log(Math.PI / Math.sin(Math.PI * z)) - lnGamma(1 - z)
LnGamma(z) ==
    LET reflected ==
            Lift2(FSub,
                  Lift1(FLog, Lift2(FDiv, {"pos"}, Lift1(FSin, FMul("pos", z)))),
                  Lift1(LnGammaDirect, FSub("pos", z)))
    IN  CASE z \in {"ninf", "neg", "zero"} -> reflected
          [] z = "pos" -> reflected \cup LnGammaDirect(z)
          [] OTHER -> LnGammaDirect(z)

\* One pass of `term *= x / (a + n); sum += term` from the pair ts
SeriesStep(ts, a, x) ==
    UNION {{[term |-> t, sum |-> sm] : sm \in FAdd(ts.sum, t)} :
              t \in Lift2(FMul, {ts.term}, Lift2(FDiv, {x}, FAdd(a, "pos")))}

\* if (Math.abs(term) < 1e-14 * Math.abs(sum)) break
MayBreak(ts) == TRUE \in Lift2(FLess, {FAbs(ts.term)}, FMul("pos", FAbs(ts.sum)))

MayContinue(ts) == FALSE \in Lift2(FLess, {FAbs(ts.term)}, FMul("pos", FAbs(ts.sum)))

RECURSIVE SeriesLoop(_, _, _)
\* for (let n = 1; n < 200; n++) { ... }: the pairs (term, sum) the loop can
\* end with, from the pairs `at` with which pass n can start. A pass that
\* changes neither set is the same as every pass after it.
SeriesLoop(st, a, x) ==
    LET Pass(s) ==
            LET after == UNION {SeriesStep(ts, a, x) : ts \in s.at}
            IN  [n |-> s.n + 1,
                 at |-> {ts \in after : MayContinue(ts)},
                 out |-> s.out \cup {ts \in after : MayBreak(ts)}]
        Body(s) ==
            IF s.n = 200 \/ s.at = {} THEN s.out \cup s.at
            ELSE LET Rest(next) ==
                         IF next.at = s.at /\ next.out = s.out THEN s.out \cup s.at
                         ELSE SeriesLoop(next, a, x)
                 IN  Apply(Rest, Pass(s))
    IN  Apply(Body, st)

\* Math.min(Math.max(result, 0), 1): "unit" is a double strictly between 0
\* and 1, "one" is 1.
Clamp(result) ==
    CASE result = "nan" -> {"nan"}
      [] result \in {"ninf", "neg", "zero"} -> {"zero"}
      [] result = "pos" -> {"unit", "one"}
      [] OTHER -> {"one"}

\* lowerIncompleteGamma(a, x) past its early returns: the series, the
\* exponential factor and the clamp
LowerIncompleteGammaSeries(a, x) ==
    LET first == FDiv("pos", a)
        ends == UNION {SeriesLoop([n |-> 1, at |-> {[term |-> t, sum |-> t]}, out |-> {}],
                                  a, x) : t \in first}
        exponent ==
            Lift2(FSub, Lift2(FAdd, {FNeg(x)}, Lift2(FMul, {a}, FLog(x))), LnGamma(a))
    IN  Lift1(Clamp, Lift2(FMul, Lift1(FExp, exponent), {ts.sum : ts \in ends}))

\* lowerIncompleteGamma(a, x): the values it can return
LowerIncompleteGamma(a, x) ==
    IF x \in {"ninf", "neg"} THEN {"zero"}
    ELSE IF x = "zero" THEN {"zero"}
    ELSE LowerIncompleteGammaSeries(a, x)

\* chi2CDF(x, k): halving keeps the class of a double
Chi2CDF(x, k) ==
    IF x \in {"ninf", "neg", "zero"} THEN {"zero"} ELSE LowerIncompleteGamma(k, x)

\* 1 - cdf: 1 minus a double close to 0 rounds to 1
OneMinus(cdf) ==
    CASE cdf = "nan" -> {"nan"}
      [] cdf = "zero" -> {"one"}
      [] cdf = "one" -> {"zero"}
      [] OTHER -> {"unit", "one"}

\* chi2PValue(chi2, ndf): the pairs of the value chi2CDF returned and the
\* value chi2PValue returns
Chi2PValue(chi2, ndf) ==
    UNION {{[cdf |-> c, p |-> v] : v \in OneMinus(c)} : c \in Chi2CDF(chi2, ndf)}

\* ------------------------------------------------------------ validation
\* A thrown Error, by the statement that throws it.
ValidationError(name, why) == [t |-> "error", kind |-> "validation", name |-> name, why |-> why]

IsError(v) == v.t = "error"

\* The first Error of a sequence of results, in evaluation order (Undefined
\* when none): the statement that throws ends the function.
FirstError(checks) ==
    LET First(seq) ==
            IF \E k \in DOMAIN seq : IsError(seq[k])
            THEN seq[CHOOSE k \in DOMAIN seq :
                         IsError(seq[k]) /\ \A j \in DOMAIN seq : IsError(seq[j]) => k <= j]
            ELSE Undefined
    IN  Apply(First, checks)

\* params.key of an object given as a function from its own keys
Get(obj, key) == IF key \in DOMAIN obj THEN obj[key] ELSE Undefined

\* { ...a, ...b }
Merge(a, b) == [k \in DOMAIN a \cup DOMAIN b |-> IF k \in DOMAIN b THEN b[k] ELSE a[k]]

\* A faulty variant of ValidateNumber: validateNumber without the test `value > max`.
ValidateNumberNoUpperBound(value, name, min, max) ==
    IF ~IsNumber(value) \/ ~IsFinite(value) THEN ValidationError(name, "finite")
    ELSE IF NumLt(value, min) THEN ValidationError(name, "range")
    ELSE value

\* validateNumber(value, name, min, max): the value, or the Error thrown
ValidateNumber(value, name, min, max) ==
    IF ~IsNumber(value) \/ ~IsFinite(value) THEN ValidationError(name, "finite")
    ELSE IF NumLt(value, min) \/ NumGt(value, max) THEN ValidationError(name, "range")
    ELSE value

\* validateCoupling(value, name)
ValidateCoupling(value, name) ==
    IF value = Undefined \/ value = Null THEN NaN
    ELSE ValidateNumber(value, name, IntNum(-100), IntNum(100))

\* validateBranchingRatio(value, name)
ValidateBranchingRatio(value, name) ==
    IF value = Undefined \/ value = Null THEN NaN
    ELSE ValidateNumber(value, name, IntNum(0), IntNum(1))

\* A faulty variant of ValidateMass: validateMass without the default.
ValidateMassNoDefault(value) == ValidateNumber(value, "mass", IntNum(1), IntNum(1000))

\* validateMass(value): the default is 125.09
ValidateMass(value) ==
    IF value = Undefined \/ value = Null THEN Frac(12509, 100)
    ELSE ValidateNumber(value, "mass", IntNum(1), IntNum(1000))

\* ---------------------------------------------------------- input documents
ALLOWED_PRODUCTION_MODES == {"ggH", "VBF", "WH", "ZH", "ttH", "tH", "bbH"}

ALLOWED_DECAY_MODES ==
    {"gammagamma", "ZZ", "WW", "bb", "tautau", "mumu", "cc", "Zgamma", "gg", "invisible"}

\* A faulty variant of OrDefault: the fallback is always the SM value 1.0.
OrDefaultOne(v, fallback) == IF IsNaN(v) THEN IntNum(1) ELSE v

\* const x = Number.isNaN(v) ? fallback : v
OrDefault(v, fallback) == IF IsNaN(v) THEN fallback ELSE v

\* A faulty variant of Precision: the field is emitted as given.
PrecisionVerbatim(p) == p

\* const precision = params.precision === "LO" ? "LO" : "BEST-QCD"
Precision(p) == IF p = Str("LO") THEN Str("LO") ELSE Str("BEST-QCD")

\* A faulty variant of LoopCoupling: the parameter is emitted without validation.
LoopCouplingUnchecked(params, key) ==
    IF Get(params, key) # Undefined THEN Get(params, key) ELSE NaN

\* if (params.key !== undefined) { const c = validateCoupling(params.key, key); ... }
\* the validated value, NaN when nothing is to be emitted, or the Error thrown
LoopCoupling(params, key) ==
    IF Get(params, key) # Undefined THEN ValidateCoupling(Get(params, key), key) ELSE NaN

\* The element of a loop-induced coupling: Undefined when none is emitted.
LoopElement(c) == IF IsNaN(c) THEN Undefined ELSE c

\* generateReducedCouplingsXML(params): the document (its fields, as emitted),
\* or the Error thrown. escapeXml leaves the digits of a number and the two
\* precision literals unchanged.
GenerateReducedCouplingsXML(params) ==
    LET mass == ValidateMass(Get(params, "mass"))
        precision == Precision(Get(params, "precision"))
        cvVal == ValidateCoupling(Get(params, "CV"), "CV")
        cfVal == ValidateCoupling(Get(params, "CF"), "CF")
        CV == OrDefault(cvVal, IntNum(1))
        CF == OrDefault(cfVal, IntNum(1))
        ctVal == ValidateCoupling(Get(params, "Ct"), "Ct")
        cbVal == ValidateCoupling(Get(params, "Cb"), "Cb")
        ccVal == ValidateCoupling(Get(params, "Cc"), "Cc")
        ctauVal == ValidateCoupling(Get(params, "Ctau"), "Ctau")
        cmuVal == ValidateCoupling(Get(params, "Cmu"), "Cmu")
        brInvVal == ValidateBranchingRatio(Get(params, "BRinv"), "BRinv")
        brUndetVal == ValidateBranchingRatio(Get(params, "BRundet"), "BRundet")
        cg == LoopCoupling(params, "Cg")
        cgamma == LoopCoupling(params, "Cgamma")
        czgamma == LoopCoupling(params, "CZgamma")
        thrown == FirstError(<<mass, cvVal, cfVal, ctVal, cbVal, ccVal, ctauVal, cmuVal,
                               brInvVal, brUndetVal, cg, cgamma, czgamma>>)
    IN  IF thrown # Undefined THEN thrown
        ELSE [t |-> "xml", mode |-> "reducedcouplings",
              mass |-> mass,
              tt |-> OrDefault(ctVal, CF),
              bb |-> OrDefault(cbVal, CF),
              cc |-> OrDefault(ccVal, CF),
              tautau |-> OrDefault(ctauVal, CF),
              mumu |-> OrDefault(cmuVal, CF),
              ZZ |-> CV,
              WW |-> CV,
              gg |-> LoopElement(cg),
              gammagamma |-> LoopElement(cgamma),
              Zgamma |-> LoopElement(czgamma),
              BRinv |-> OrDefault(brInvVal, IntNum(0)),
              BRundet |-> OrDefault(brUndetVal, IntNum(0)),
              precision |-> precision]

\* A string that may hold underscores is the sequence of its pieces: "_" for an
\* underscore, a word without underscore otherwise ("ggH_ZZ" is
\* <<"ggH", "_", "ZZ">>, "" is <<>>). No allowed mode is the concatenation of
\* two or more of the words used.
RECURSIVE Split(_)
\* key.split("_"): the tokens between the underscores, empty tokens included
Split(key) ==
    IF \A k \in DOMAIN key : key[k] # "_" THEN <<key>>
    ELSE LET i == CHOOSE k \in DOMAIN key :
                      key[k] = "_" /\ \A j \in 1..(k - 1) : key[j] # "_"
         IN  <<SubSeq(key, 1, i - 1)>> \o Split(SubSeq(key, i + 1, Len(key)))

\* ALLOWED_..._MODES.has(token)
Has(modes, token) == \E m \in modes : token = <<m>>

\* A faulty variant of MuEntry: the loop body without the test of the decay mode.
MuEntryAnyDecay(entry) ==
    LET value == entry.value
        parts == Split(entry.key)
    IN  IF ~IsNumber(value) \/ ~IsFinite(value)
           \/ NumLt(value, IntNum(-100)) \/ NumGt(value, IntNum(100))
        THEN ValidationError(entry.key, "mu")
        ELSE IF Len(parts) # 2 THEN ValidationError(entry.key, "format")
        ELSE IF ~Has(ALLOWED_PRODUCTION_MODES, parts[1])
        THEN ValidationError(entry.key, "production")
        ELSE [t |-> "mu", prod |-> parts[1], decay |-> parts[2], value |-> value]

\* One iteration of the loop over Object.entries(params.signalStrengths): the
\* <mu> element, or the Error thrown.
MuEntry(entry) ==
    LET value == entry.value
        parts == Split(entry.key)
    IN  IF ~IsNumber(value) \/ ~IsFinite(value)
           \/ NumLt(value, IntNum(-100)) \/ NumGt(value, IntNum(100))
        THEN ValidationError(entry.key, "mu")
        ELSE IF Len(parts) # 2 THEN ValidationError(entry.key, "format")
        ELSE IF ~Has(ALLOWED_PRODUCTION_MODES, parts[1])
        THEN ValidationError(entry.key, "production")
        ELSE IF ~Has(ALLOWED_DECAY_MODES, parts[2])
        THEN ValidationError(entry.key, "decay")
        ELSE [t |-> "mu", prod |-> parts[1], decay |-> parts[2], value |-> value]

\* generateSignalStrengthsXML(params): the document, or the Error thrown.
\* params.signalStrengths is Undefined, a non-object value, or
\* [t |-> "object", entries |-> <its entries in insertion order>].
GenerateSignalStrengthsXML(params) ==
    LET mass == ValidateMass(Get(params, "mass"))
        ss == Get(params, "signalStrengths")
    IN  IF IsError(mass) THEN mass
        ELSE IF ss.t # "object" THEN ValidationError("signalStrengths", "object")
        ELSE LET mus == [k \in DOMAIN ss.entries |-> MuEntry(ss.entries[k])]
                 thrown == FirstError(mus)
             IN  IF thrown # Undefined THEN thrown
                 ELSE [t |-> "xml", mode |-> "signalstrengths", mass |-> mass, mu |-> mus]

\* ------------------------------------------------------- parallelLimit
\* The state as a record, so that the synchronous stretches of the code are
\* functions from state to state.
St ==
    [tool |-> tool, args |-> args, pc |-> pc, response |-> response,
     files |-> files, fsOps |-> fsOps, engineCalls |-> engineCalls, log |-> log,
     items |-> items, limit |-> limit, results |-> results,
     currentIndex |-> currentIndex, workers |-> workers, fnState |-> fnState,
     fnCalls |-> fnCalls, slotWrites |-> slotWrites, plState |-> plState,
     plValue |-> plValue]

SetState(next) ==
    \E r \in {next} :
    /\ tool' = r.tool
    /\ args' = r.args
    /\ pc' = r.pc
    /\ response' = r.response
    /\ files' = r.files
    /\ fsOps' = r.fsOps
    /\ engineCalls' = r.engineCalls
    /\ items' = r.items
    /\ limit' = r.limit
    /\ results' = r.results
    /\ currentIndex' = r.currentIndex
    /\ workers' = r.workers
    /\ fnState' = r.fnState
    /\ fnCalls' = r.fnCalls
    /\ slotWrites' = r.slotWrites
    /\ plState' = r.plState
    /\ plValue' = r.plValue
    /\ log' = r.log
    /\ UNCHANGED <<lilithVars, serverVars>>

\* const results = new Array(items.length); let currentIndex = 0
NewPL(r, its, lim) ==
    [r EXCEPT !.items = its, !.limit = lim,
              !.results = [i \in DOMAIN its |-> Hole],
              !.currentIndex = 0,
              !.workers = <<>>,
              !.fnState = [i \in DOMAIN its |-> [st |-> "pending", out |-> Undefined]],
              !.fnCalls = [i \in DOMAIN its |-> <<>>],
              !.slotWrites = [i \in DOMAIN its |-> 0],
              !.plState = "pending", !.plValue = Undefined]

\* A faulty variant of NumWorkers: one worker per item, whatever the limit.
NumWorkersUncapped(lim, n) == n

\* Array(Math.min(limit, items.length))
NumWorkers(lim, n) == Min(lim, n)

\* A faulty variant of NextIndex: a claim that leaves currentIndex where it was.
NextIndexStale(c) == c

\* const index = currentIndex++
NextIndex(c) == c + 1

\* A faulty variant of StoreResult: the awaited value stored in the first free slot.
StoreInCompletionOrder(res, index, v) ==
    LET free == {i \in DOMAIN res : res[i] = Hole}
        first == CHOOSE i \in free : \A j \in free : i <= j
    IN  IF free = {} THEN res ELSE [res EXCEPT ![first] = v]

\* results[index] = <the awaited value>
StoreResult(res, index, v) == [res EXCEPT ![index] = v]

\* A faulty variant of WorkerReject: the rejection of a worker promise is not
\* passed on (Promise.allSettled in place of Promise.all).
WorkerRejectSettled(r, w, err) ==
    [r EXCEPT !.workers[w] = [st |-> "rejected", index |-> -1]]

\* The worker's promise rejects: Promise.all rejects with the first rejection.
WorkerReject(r, w, err) ==
    LET Reject(r1) == IF r1.plState = "pending"
                      THEN [r1 EXCEPT !.plState = "rejected", !.plValue = err]
                      ELSE r1
    IN  Apply(Reject, [r EXCEPT !.workers[w] = [st |-> "rejected", index |-> -1]])

\* A faulty variant of WorkerReturn: parallelLimit returns when the first
\* worker promise resolves.
WorkerReturnFirst(r, w) ==
    LET Return1(r1) ==
            IF r1.plState = "pending"
            THEN [r1 EXCEPT !.plState = "resolved", !.plValue = r1.results]
            ELSE r1
    IN  Apply(Return1, [r EXCEPT !.workers[w] = [st |-> "resolved", index |-> -1]])

\* The worker's loop ends: its promise resolves; Promise.all resolves once
\* every worker promise has resolved, and parallelLimit returns results.
WorkerReturn(r, w) ==
    LET Return1(r1) ==
            IF r1.plState = "pending"
               /\ \A v \in DOMAIN r1.workers : r1.workers[v].st = "resolved"
            THEN [r1 EXCEPT !.plState = "resolved", !.plValue = r1.results]
            ELSE r1
    IN  Apply(Return1, [r EXCEPT !.workers[w] = [st |-> "resolved", index |-> -1]])

\* fn(items[index], index) for an opaque fn: the call is recorded and the
\* returned promise is pending.
CallOpaqueFn(r, index) ==
    [r EXCEPT !.fnCalls[index] = Append(@, <<r.items[index], index>>),
              !.fnState[index] = [st |-> "inflight", out |-> Undefined]]

\* The coordinates of a scan point as an object keyed by the scanned names:
\* { [param.name]: point.value } or
\* { [param1.name]: point.val1, [param2.name]: point.val2 }.
PointCouplings(r, point) ==
    IF r.tool = "scan_1d"
    THEN [k \in {r.args.param.name} |-> point.value]
    ELSE [k \in {r.args.param1.name, r.args.param2.name} |->
             IF k = r.args.param2.name THEN point.val2 ELSE point.val1]

\* const { param, fixedParams = {} } = params
FixedParams(a) == IF Get(a, "fixedParams") = Undefined THEN <<>> ELSE a.fixedParams

\* The scans' fn up to its first await: the point's document is generated (a
\* validation Error rejects the call at once) and fs.writeFile is started.
CallScanFn(r, index) ==
    LET couplings == Merge(FixedParams(r.args), PointCouplings(r, r.items[index]))
        Write(xmlInput) ==
            [r EXCEPT !.fnCalls[index] = Append(@, <<r.items[index], index>>),
                      !.fnState[index] = IF IsError(xmlInput)
                                         THEN [st |-> "rejected", out |-> xmlInput]
                                         ELSE [st |-> "writing", out |-> Undefined]]
    IN  Apply(Write, GenerateReducedCouplingsXML(couplings))

CallFn(r, index) == IF r.tool = "none" THEN CallOpaqueFn(r, index) ELSE CallScanFn(r, index)

\* while (currentIndex < items.length) { const index = currentIndex++;
\*   results[index] = await fn(items[index], index); }
\* from the loop test to the await (or to the end of the loop).
WorkerLoop(state, w) ==
    LET Await(r2) ==
            LET index == r2.workers[w].index
            IN  IF r2.fnState[index].st = "rejected"
                THEN WorkerReject(r2, w, r2.fnState[index].out)
                ELSE r2
        Loop(r) ==
            IF r.currentIndex < Length(r.items)
            THEN LET index == r.currentIndex
                     r1 == [r EXCEPT !.currentIndex = NextIndex(index),
                                     !.workers[w] = [st |-> "await", index |-> index]]
                 IN  Apply(Await, CallFn(r1, index))
            ELSE WorkerReturn(r, w)
    IN  Apply(Loop, state)

\* The await in worker w returns v: the slot is assigned and the loop goes on.
WorkerResume(state, w, v) ==
    LET Resume(r) ==
            LET index == r.workers[w].index
            IN  WorkerLoop([r EXCEPT !.results = StoreResult(@, index, v),
                                     !.slotWrites[index] = @ + 1], w)
    IN  Apply(Resume, state)

\* .map(() => worker()): the workers start one after the other, each running
\* to its first await.
RECURSIVE StartWorkers(_, _, _)
StartWorkers(r, w, n) ==
    IF w > n THEN r ELSE StartWorkers(WorkerLoop(r, w), w + 1, n)

\* parallelLimit(items, limit, fn) up to `await Promise.all(workers)`.
ParallelLimit(r, its, lim) ==
    LET n == NumWorkers(lim, Length(its))
        Start(r0) ==
            StartWorkers([r0 EXCEPT !.workers = [w \in 1..n |-> [st |-> "new", index |-> -1]]],
                         1, n)
        All(r2) == IF n = 0 THEN [r2 EXCEPT !.plState = "resolved", !.plValue = r2.results]
                   ELSE r2
    IN  Apply(All, Apply(Start, NewPL(r, its, lim)))

\* The worker that awaits the fn call of item i.
WorkerOf(r, i) ==
    CHOOSE w \in DOMAIN r.workers : r.workers[w] = [st |-> "await", index |-> i]

InFlight == {i \in DOMAIN fnState : fnState[i].st \notin {"pending", "resolved", "rejected"}}

\* ------------------------------------------ parallelLimit with an opaque fn
\* The items of a direct call: distinct values, none equal to its index.
TestItems(n) == [i \in 0..(n - 1) |-> 10 * (n - i)]

InitPL ==
    /\ tool = "none"
    /\ args = <<>>
    /\ pc = "received"
    /\ response = Undefined
    /\ files = {}
    /\ fsOps = <<>>
    /\ engineCalls = {}
    /\ log = <<>>
    /\ \E n \in 0..MaxItems : items = TestItems(n)
    /\ limit \in 1..MaxLimit
    /\ results = <<>>
    /\ currentIndex = 0
    /\ workers = <<>>
    /\ fnState = <<>>
    /\ fnCalls = <<>>
    /\ slotWrites = <<>>
    /\ plState = "none"
    /\ plValue = Undefined
    /\ NoLilith
    /\ NoServer

\* The caller invokes parallelLimit(items, limit, fn).
PLStart ==
    /\ tool = "none"
    /\ pc = "received"
    /\ SetState(ParallelLimit([St EXCEPT !.pc = "running"], items, limit))

\* The promise of fn(items[i], i) resolves with v; the awaiting worker goes on.
FnResolve(i, v) ==
    /\ tool = "none"
    /\ fnState[i].st = "inflight"
    /\ SetState(WorkerResume([St EXCEPT !.fnState[i] = [st |-> "resolved", out |-> v],
                                        !.log = Append(@, <<"settled", i>>)],
                             WorkerOf(St, i), v))

\* The promise of fn(items[i], i) rejects; the awaiting worker's promise rejects.
FnReject(i) ==
    /\ tool = "none"
    /\ fnState[i].st = "inflight"
    /\ SetState(WorkerReject([St EXCEPT !.fnState[i] = [st |-> "rejected", out |-> Err("fn")],
                                        !.log = Append(@, <<"settled", i>>)],
                             WorkerOf(St, i), Err("fn")))

NextPL ==
    \/ PLStart
    \/ \E i \in DOMAIN fnState : \E v \in Values : FnResolve(i, v)
    \/ \E i \in DOMAIN fnState : FnReject(i)

SpecPL == InitPL /\ [][NextPL]_vars

\* parallelLimit with an fn whose every invocation eventually resolves: the
\* event loop runs the caller, and the continuation of every settled promise.
NextPLResolving ==
    \/ PLStart
    \/ \E i \in DOMAIN fnState : \E v \in Values : FnResolve(i, v)

SpecPLResolving ==
    /\ InitPL
    /\ [][NextPLResolving]_vars
    /\ WF_vars(PLStart)
    /\ \A i \in 0..(MaxItems - 1) :
          WF_vars(i \in DOMAIN fnState /\ \E v \in Values : FnResolve(i, v))

\* ------------------------------------------------------ the tool handler
MAX_CONCURRENT_SCANS == 10

ALLOWED_EXP_INPUT_FILES ==
    {Str("data/latest.list"), Str("data/latestRun2.list"), Str("data/finalRun1.list")}

\* The tools that run the Engine.
ScanTools == {"scan_1d", "scan_2d"}

SingleTools ==
    {"compute_likelihood", "compute_sm_likelihood", "analyze_2hdm",
     "analyze_singlet_extension", "convert_to_signal_strength", "validate_input"}

\* Whether a value counts as true in `a || b` and `!a`.
Truthy(v) == v \notin {Undefined, Null, NaN, Str(""), IntNum(0)}

\* The catch clause of the handler: { content: [{ error: error.message }], isError: true }
ErrorResponse(e) == [isError |-> TRUE, error |-> e]

\* error.message, as the sequence of its parts. The Error of a non-zero exit
\* is built from the exit code and the captured stderr of the Engine; every
\* other message is taken as one part, named by the kind of the Error.
Message(e) ==
    IF e.kind = "exit" THEN <<"Lilith exited with code", "code", "stderr">>
    ELSE <<e.kind>>

\* The text of an error response: JSON.stringify({ error: errorMessage })
ErrorBody(resp) == [error |-> Message(resp.error)]

\* A returned { content: [{ type: "text", text: JSON.stringify(body) }] }
TextResponse(body) == [isError |-> FALSE, body |-> body]

\* The handler's promise settles once.
Respond(r, resp) ==
    IF r.pc = "done" THEN r ELSE [r EXCEPT !.pc = "done", !.response = resp]

\* Completion of a function body that still has its finally clause to run.
Return(v) == [t |-> "return", value |-> v]

Throw(e) == [t |-> "throw", error |-> e]

\* The temp files of evaluation i: generateTempFilename draws 16 random bytes,
\* so the names of one call are distinct.
InputFile(i) == <<"input", i>>

MuFile(i) == <<"mu_output", i>>

Bump(ops, f, field) ==
    LET old == IF f \in DOMAIN ops THEN ops[f] ELSE [writes |-> 0, unlinks |-> 0]
    IN  [x \in DOMAIN ops \cup {f} |-> IF x = f THEN [old EXCEPT ![field] = @ + 1] ELSE ops[x]]

\* fs.writeFile(f, ...) has completed.
WriteFile(r, f) == [r EXCEPT !.files = @ \cup {f}, !.fsOps = Bump(@, f, "writes")]

\* A faulty variant of Unlink: the file is left in place.
UnlinkSkipped(r, f) == r

\* cleanupTempFile(f): fs.unlink(f) has completed; its error is ignored.
Unlink(r, f) == [r EXCEPT !.files = @ \ {f}, !.fsOps = Bump(@, f, "unlinks")]

\* runLilith(["run_lilith.py", tmpFile, expInput, ...]) is called for evaluation i.
RunLilith(r, i, expInput) ==
    [r EXCEPT !.engineCalls = @ \cup {[eval |-> i, expInput |-> expInput]},
              !.fnState[i] = [st |-> "engine", out |-> Undefined]]

\* What the Engine process can print on stdout, by the text captured by
\* /-2log\(likelihood\)\s*=\s*([\d.]+)/ (Null: the pattern does not match).
Captures == {"1", "2", "."}

Stdout(capture) == [t |-> "stdout", capture |-> capture]

EngineOutputs == {Stdout(Str(c)) : c \in Captures} \cup {Stdout(Null)}

\* How runLilith can reject: a non-zero exit code (the message carries stderr),
\* the process's "error" event, or the timeout.
EngineFailures == {Err("exit"), Err("spawn"), Err("timeout")}

EngineOutcomes == EngineOutputs \cup EngineFailures

\* output.match(/-2log\(likelihood\)\s*=\s*([\d.]+)/): the capture, or Null
LikelihoodMatch(output) == output.capture

\* parseFloat of a captured text: "." holds no digit
ParseFloat(text) ==
    CASE text = Str("1") -> IntNum(1)
      [] text = Str("2") -> IntNum(2)
      [] OTHER -> NaN

\* match ? parseFloat(match[1]) : null
LikelihoodOrNull(output) ==
    IF LikelihoodMatch(output) # Null THEN ParseFloat(LikelihoodMatch(output)) ELSE Null

\* ------------------------------------------------------------------- scans
\* The elements of an array a[0..n-1], in index order.
ToSeq(arr) == [k \in 1..Length(arr) |-> arr[k - 1]]

NotNull(x) == x # Null

\* Math.min(...values) of a non-empty sequence of numbers
RECURSIVE MathMin(_)
MathMin(seq) ==
    LET Least(rest) == IF IsNaN(seq[1]) \/ IsNaN(rest) THEN NaN
                       ELSE IF NumLt(seq[1], rest) THEN seq[1] ELSE rest
    IN  IF Len(seq) = 1 THEN seq[1] ELSE Apply(Least, MathMin(Tail(seq)))

\* Array.from({ length: steps }, ...): ToLength truncates the length
ArrayFromLength(steps) == Floor(steps)

\* for (let i = 0; i < steps; i++): the number of iterations
LoopCount(steps) == Ceil(steps)

\* The point's result once the Engine has printed output:
\* match ? { value, likelihood } : null
ScanPointResult(r, point, output) ==
    IF LikelihoodMatch(output) = Null THEN Null
    ELSE IF r.tool = "scan_1d"
         THEN [value |-> point.value, likelihood |-> ParseFloat(LikelihoodMatch(output))]
         ELSE [x |-> point.val1, y |-> point.val2,
               likelihood |-> ParseFloat(LikelihoodMatch(output))]

\* A faulty variant of WithDelta: the subtraction taken the other way round.
WithDeltaReversed(found, minL) ==
    [minimumLikelihood |-> minL,
     results |-> [k \in DOMAIN found |->
                     Merge(found[k], [deltaLikelihood |-> NumSub(minL, found[k].likelihood)])]]

\* results.map(r => ({ ...r, deltaLikelihood: r.likelihood - minL }))
WithDelta(found, minL) ==
    [minimumLikelihood |-> minL,
     results |-> [k \in DOMAIN found |->
                     Merge(found[k], [deltaLikelihood |-> NumSub(found[k].likelihood, minL)])]]

\* A faulty variant of ScanFinish: the handler without the test `results.length === 0`.
ScanFinishAllowEmpty(r) ==
    LET Finish(found) ==
            LET Done(minL) == Respond(r, TextResponse(WithDelta(found, minL)))
            IN  Apply(Done, IF found = <<>> THEN PosInf
                            ELSE MathMin([k \in DOMAIN found |-> found[k].likelihood]))
    IN  Apply(Finish, SelectSeq(ToSeq(r.plValue), NotNull))

\* The code after `await parallelLimit(...)` when it resolved with scanResults.
ScanFinish(r) ==
    LET Finish(found) ==
            LET Done(minL) == Respond(r, TextResponse(WithDelta(found, minL)))
            IN  IF Len(found) = 0 THEN Respond(r, ErrorResponse(Err("All scan points failed")))
                ELSE Apply(Done, MathMin([k \in DOMAIN found |-> found[k].likelihood]))
    IN  Apply(Finish, SelectSeq(ToSeq(r.plValue), NotNull))

\* The handler resumes from `await parallelLimit(...)` as soon as that promise
\* has settled: with the results, or in the catch clause with the rejection.
AwaitParallelLimit(state) ==
    LET Resume(r) ==
            IF r.pc # "running" THEN r
            ELSE IF r.plState = "resolved" THEN ScanFinish(r)
            ELSE IF r.plState = "rejected" THEN Respond(r, ErrorResponse(r.plValue))
            ELSE r
    IN  Apply(Resume, state)

\* case "scan_1d", up to `await parallelLimit(...)`
Scan1D(r) ==
    LET param == r.args.param
        thrown == FirstError(<<ValidateNumber(param.min, "param.min", IntNum(-100), IntNum(100)),
                               ValidateNumber(param.max, "param.max", IntNum(-100), IntNum(100)),
                               ValidateNumber(param.steps, "param.steps", IntNum(1), IntNum(1000))>>)
        step == NumDiv(NumSub(param.max, param.min), NumSub(param.steps, IntNum(1)))
        scanPoints == [i \in 0..(ArrayFromLength(param.steps) - 1) |->
                          [index |-> i,
                           value |-> NumAdd(param.min, NumMul(IntNum(i), step))]]
    IN  IF thrown # Undefined THEN Respond(r, ErrorResponse(thrown))
        ELSE IF Ge(param.min, param.max) THEN Respond(r, ErrorResponse(Err("min >= max")))
        ELSE AwaitParallelLimit(ParallelLimit(r, scanPoints, MAX_CONCURRENT_SCANS))

\* case "scan_2d", up to `await parallelLimit(...)`
Scan2D(r) ==
    LET param1 == r.args.param1
        param2 == r.args.param2
        thrown == FirstError(<<ValidateNumber(param1.min, "param1.min", IntNum(-100), IntNum(100)),
                               ValidateNumber(param1.max, "param1.max", IntNum(-100), IntNum(100)),
                               ValidateNumber(param1.steps, "param1.steps", IntNum(1), IntNum(100)),
                               ValidateNumber(param2.min, "param2.min", IntNum(-100), IntNum(100)),
                               ValidateNumber(param2.max, "param2.max", IntNum(-100), IntNum(100)),
                               ValidateNumber(param2.steps, "param2.steps", IntNum(1), IntNum(100))>>)
        step1 == NumDiv(NumSub(param1.max, param1.min), NumSub(param1.steps, IntNum(1)))
        step2 == NumDiv(NumSub(param2.max, param2.min), NumSub(param2.steps, IntNum(1)))
        n1 == LoopCount(param1.steps)
        n2 == LoopCount(param2.steps)
        scanPoints == [k \in 0..(n1 * n2 - 1) |->
                          [i |-> k \div n2, j |-> k % n2,
                           val1 |-> NumAdd(param1.min, NumMul(IntNum(k \div n2), step1)),
                           val2 |-> NumAdd(param2.min, NumMul(IntNum(k % n2), step2))]]
    IN  IF thrown # Undefined THEN Respond(r, ErrorResponse(thrown))
        ELSE IF Ge(param1.min, param1.max) \/ Ge(param2.min, param2.max)
             THEN Respond(r, ErrorResponse(Err("min >= max")))
        ELSE AwaitParallelLimit(ParallelLimit(r, scanPoints, MAX_CONCURRENT_SCANS))

\* ------------------------------------------------- single-evaluation tools
\* Math.PI to six digits (the only use is the range check of mixingAngle).
PI == Frac(314159, 100000)

\* Math.cos at the one angle whose cosine the model holds exactly.
Cos(v) == CASE v = IntNum(0) -> IntNum(1)

\* Math.sqrt of a fraction of perfect squares.
ISqrt(k) == CHOOSE x \in 0..k : x * x = k

Sqrt(v) == Frac(ISqrt(v.n), ISqrt(v.d))

\* Math.max(0, v)
Max0(v) == IF NumLt(v, IntNum(0)) THEN IntNum(0) ELSE v

\* compute2HDMCouplings(type, tanBeta, sinBetaMinusAlpha)
Compute2HDMCouplings(type, tanBeta, sinBA) ==
    LET cosBA == Sqrt(Max0(NumSub(IntNum(1), NumMul(sinBA, sinBA))))
        up == NumAdd(sinBA, NumDiv(cosBA, tanBeta))
        down == NumSub(sinBA, NumMul(cosBA, tanBeta))
    IN  [CV |-> sinBA,
         Ct |-> up,
         Cb |-> IF type \in {Str("II"), Str("F")} THEN down ELSE up,
         Ctau |-> IF type \in {Str("II"), Str("L")} THEN down ELSE up]

\* The input document a single-evaluation tool builds before it writes its
\* temp file, or the Error thrown on the way.
SingleInput(r) ==
    LET a == r.args
    IN  CASE r.tool = "compute_likelihood" ->
               IF Get(a, "mode") = Str("couplings") THEN GenerateReducedCouplingsXML(a)
               ELSE IF Get(a, "mode") = Str("signalstrengths") THEN GenerateSignalStrengthsXML(a)
               ELSE Err("Invalid mode")
          [] r.tool = "compute_sm_likelihood" ->
               GenerateReducedCouplingsXML(
                   [CV |-> IntNum(1), CF |-> IntNum(1), BRinv |-> IntNum(0), BRundet |-> IntNum(0)])
          [] r.tool = "analyze_2hdm" ->
               LET tanBeta == ValidateNumber(Get(a, "tanBeta"), "tanBeta", Frac(1, 10), IntNum(100))
                   sinBA == ValidateNumber(Get(a, "sinBetaMinusAlpha"), "sinBetaMinusAlpha",
                                           IntNum(-1), IntNum(1))
                   mass == ValidateMass(Get(a, "mass"))
                   thrown == FirstError(<<tanBeta, sinBA, mass>>)
                   c == Compute2HDMCouplings(a.type, tanBeta, sinBA)
               IN  IF Get(a, "type") \notin {Str("I"), Str("II"), Str("L"), Str("F")}
                   THEN Err("Invalid 2HDM type")
                   ELSE IF thrown # Undefined THEN thrown
                   ELSE GenerateReducedCouplingsXML(
                            [mass |-> mass, CV |-> c.CV, Ct |-> c.Ct, Cb |-> c.Cb,
                             Ctau |-> c.Ctau, Cmu |-> c.Ctau, Cc |-> c.Ct])
          [] r.tool = "analyze_singlet_extension" ->
               LET mixingAngle == ValidateNumber(Get(a, "mixingAngle"), "mixingAngle",
                                                 NumNeg(PI), PI)
                   BRinv == ValidateBranchingRatio(Get(a, "BRinv"), "BRinv")
                   thrown == FirstError(<<mixingAngle, BRinv>>)
                   cosMix == Cos(mixingAngle)
               IN  IF thrown # Undefined THEN thrown
                   ELSE GenerateReducedCouplingsXML(
                            [CV |-> cosMix, CF |-> cosMix, BRinv |-> OrDefault(BRinv, IntNum(0))])
          [] r.tool = "convert_to_signal_strength" -> GenerateReducedCouplingsXML(a)
          [] r.tool = "validate_input" ->
               IF ~Truthy(Get(a, "xml")) \/ Get(a, "xml").t # "text"
               THEN Err("xml is required and must be a string")
               ELSE IF a.xml.length > 100000 THEN Err("XML input too large")
               ELSE a.xml

\* A single-evaluation tool up to `await fs.writeFile(tmpFile, xmlInput)`.
SingleStart(r) ==
    LET Write(xmlInput) ==
            IF IsError(xmlInput) THEN Respond(r, ErrorResponse(xmlInput))
            ELSE [r EXCEPT !.fnState = [i \in {0} |-> [st |-> "writing", out |-> Undefined]]]
    IN  Apply(Write, SingleInput(r))

\* const expInput = params.expInput || "data/latest.list"
ExpInputOf(a) ==
    IF Truthy(Get(a, "expInput")) THEN a.expInput ELSE Str("data/latest.list")

\* A faulty variant of ExpInputAllowed: no test of the dataset selector.
ExpInputAllowedAlways(expInput) == TRUE

\* if (!ALLOWED_EXP_INPUT_FILES.has(expInput)) throw ...
ExpInputAllowed(expInput) == expInput \in ALLOWED_EXP_INPUT_FILES

\* The fn promise of a scan point, or the single evaluation, settles.
Settle(state, i) ==
    LET Settled(r) ==
            LET out == r.fnState[i].out
                ok == out.t = "return"
                r1 == [r EXCEPT !.fnState[i] = IF ok THEN [st |-> "resolved", out |-> out.value]
                                               ELSE [st |-> "rejected", out |-> out.error]]
            IN  IF r.tool \in ScanTools
                THEN AwaitParallelLimit(IF ok THEN WorkerResume(r1, WorkerOf(r, i), out.value)
                                        ELSE WorkerReject(r1, WorkerOf(r, i), out.error))
                ELSE Respond(r1, IF ok THEN TextResponse(out.value)
                                 ELSE ErrorResponse(out.error))
    IN  Apply(Settled, state)

\* The code that follows `await fs.writeFile(tmpFile, xmlInput)`, to the next await.
AfterWriteFile(r, i) ==
    IF r.tool \in {"compute_likelihood", "compute_sm_likelihood"}
    THEN IF ExpInputAllowed(ExpInputOf(r.args))
         THEN RunLilith(r, i, ExpInputOf(r.args))
         ELSE [r EXCEPT !.fnState[i] =
                   [st |-> "cleanup", out |-> Throw(Err("Invalid experimental input file"))]]
    ELSE RunLilith(r, i, Str("data/latest.list"))

\* The code that follows `await runLilith(...)`, to the next await: the
\* finally clause starts cleanupTempFile (convert_to_signal_strength reads
\* the Engine's mu file first).
AfterRunLilith(r, i, outcome) ==
    LET failed == IsError(outcome)
        completion ==
            CASE r.tool \in ScanTools ->
                   IF failed THEN Throw(outcome)
                   ELSE Return(ScanPointResult(r, r.items[i], outcome))
              [] r.tool = "compute_likelihood" ->
                   IF failed THEN Throw(outcome)
                   ELSE Return([likelihood |-> LikelihoodOrNull(outcome), rawOutput |-> outcome])
              [] r.tool = "compute_sm_likelihood" ->
                   IF failed THEN Throw(outcome)
                   ELSE Return([smLikelihood |-> LikelihoodOrNull(outcome)])
              [] r.tool \in {"analyze_2hdm", "analyze_singlet_extension"} ->
                   IF failed THEN Throw(outcome)
                   ELSE Return([likelihood |-> LikelihoodOrNull(outcome)])
              [] r.tool = "validate_input" ->
                   IF failed THEN Return([valid |-> FALSE, error |-> outcome])
                   ELSE Return([valid |-> TRUE])
              [] r.tool = "convert_to_signal_strength" ->
                   IF failed THEN Throw(outcome) ELSE Return(outcome)
    IN  IF r.tool = "convert_to_signal_strength" /\ ~failed
        THEN [r EXCEPT !.fnState[i] = [st |-> "readmu", out |-> completion]]
        ELSE [r EXCEPT !.fnState[i] = [st |-> "cleanup", out |-> completion]]

\* ------------------------------------------------------------- requests
Axis(name, mn, mx, steps) == [name |-> name, min |-> mn, max |-> mx, steps |-> steps]

\* scan_1d: "zeta" is a name generateReducedCouplingsXML does not read.
Scan1DRequests ==
    {[tool |-> "scan_1d", args |-> [param |-> Axis(nm, mn, mx, st), fixedParams |-> fp]] :
        nm \in {"CV", "zeta"},
        mn \in {IntNum(0), IntNum(-101), NaN},
        mx \in {IntNum(1), IntNum(0), IntNum(101), Undefined},
        st \in {IntNum(k) : k \in 0..MaxSteps}
                  \cup {Frac(3, 2), Frac(5, 2), IntNum(1001), Str("3")},
        fp \in {Undefined, [CF |-> IntNum(200)]}}

Axes2D(name) ==
    {Axis(name, IntNum(0), IntNum(1), IntNum(2)),
     Axis(name, IntNum(0), IntNum(1), IntNum(1)),
     Axis(name, IntNum(0), IntNum(100), Frac(3, 2)),
     Axis(name, IntNum(0), IntNum(1), IntNum(101)),
     Axis(name, IntNum(1), IntNum(0), IntNum(2)),
     Axis(name, NaN, IntNum(1), IntNum(2))}

Scan2DRequests ==
    {[tool |-> "scan_2d", args |-> [param1 |-> p1, param2 |-> p2]] :
        p1 \in Axes2D("CV"), p2 \in Axes2D("CF")}

ExpInputs ==
    {Undefined, Str(""), Str("data/latest.list"), Str("data/latestRun2.list"),
     Str("data/finalRun1.list"), Str("../../etc/passwd"), IntNum(5)}

SignalStrengthArgs ==
    {[t |-> "object", entries |-> <<[key |-> <<"ggH", "_", "gammagamma">>, value |-> IntNum(1)]>>],
     [t |-> "object", entries |-> <<[key |-> <<"ggH", "_", "invalidDecay">>, value |-> IntNum(1)]>>]}

SingleRequests ==
    {[tool |-> "compute_likelihood", args |-> [mode |-> Str(m), expInput |-> e, CV |-> cv,
                                                signalStrengths |-> ss]] :
        m \in {"couplings", "signalstrengths", "xml"}, e \in ExpInputs,
        cv \in {Frac(13, 10), IntNum(200)}, ss \in SignalStrengthArgs}
    \cup {[tool |-> "compute_sm_likelihood", args |-> [expInput |-> e]] : e \in ExpInputs}
    \cup {[tool |-> "compute_sm_likelihood", args |-> <<>>]}
    \cup {[tool |-> "analyze_2hdm", args |-> [type |-> Str(ty), tanBeta |-> tb,
                                              sinBetaMinusAlpha |-> sba]] :
             ty \in {"I", "II", "III"}, tb \in {IntNum(1), IntNum(0)},
             sba \in {IntNum(1), IntNum(0), IntNum(2)}}
    \cup {[tool |-> "analyze_singlet_extension", args |-> [mixingAngle |-> ma, BRinv |-> br]] :
             ma \in {IntNum(0), IntNum(4), Undefined}, br \in {Undefined, Frac(1, 2), IntNum(2)}}
    \cup {[tool |-> "convert_to_signal_strength", args |-> [CV |-> cv]] :
             cv \in {Frac(13, 10), IntNum(200)}}
    \cup {[tool |-> "validate_input", args |-> [xml |-> x]] :
             x \in {Undefined, IntNum(5), [t |-> "text", length |-> 0],
                    [t |-> "text", length |-> 20], [t |-> "text", length |-> 100001]}}

Requests == Scan1DRequests \cup Scan2DRequests \cup SingleRequests

\* --------------------------------------------------------------- actions
Init ==
    /\ \E req \in Requests : tool = req.tool /\ args = req.args
    /\ pc = "received"
    /\ response = Undefined
    /\ files = {}
    /\ fsOps = <<>>
    /\ engineCalls = {}
    /\ log = <<>>
    /\ items = <<>>
    /\ limit = 0
    /\ results = <<>>
    /\ currentIndex = 0
    /\ workers = <<>>
    /\ fnState = <<>>
    /\ fnCalls = <<>>
    /\ slotWrites = <<>>
    /\ plState = "none"
    /\ plValue = Undefined
    /\ NoLilith
    /\ NoServer

\* The CallToolRequest handler runs from its entry to its first await (or to
\* the response, when it throws before).
Call ==
    /\ pc = "received"
    /\ tool # "none"
    /\ LET r == [St EXCEPT !.pc = "running"]
       IN  SetState(CASE tool = "scan_1d" -> Scan1D(r)
                      [] tool = "scan_2d" -> Scan2D(r)
                      [] OTHER -> SingleStart(r))

\* fs.writeFile of evaluation i completes: the file exists, the Engine is called.
WriteFileDone(i) ==
    /\ fnState[i].st = "writing"
    /\ SetState(AfterWriteFile(WriteFile(St, InputFile(i)), i))

\* fs.writeFile of evaluation i fails: the evaluation throws outside any try.
WriteFileFail(i) ==
    /\ fnState[i].st = "writing"
    /\ SetState(Settle([St EXCEPT !.fnState[i].out = Throw(Err("writeFile"))], i))

\* The runLilith promise of evaluation i settles: with the Engine's stdout, or
\* rejected. The Engine may have written the mu file it was asked for.
EngineSettle(i, outcome, mu) ==
    /\ fnState[i].st = "engine"
    /\ SetState(AfterRunLilith(IF mu THEN WriteFile(St, MuFile(i)) ELSE St, i, outcome))

\* fs.readFile(muFile) of convert_to_signal_strength settles; a failure is
\* caught and leaves muContent empty.
ReadMuDone(i) ==
    /\ fnState[i].st = "readmu"
    /\ LET muContent == IF MuFile(i) \in files THEN Str("<mu/>") ELSE Str("")
           body == [signalStrengthsXML |-> muContent, rawOutput |-> fnState[i].out.value]
       IN  SetState([St EXCEPT !.fnState[i] = [st |-> "cleanup", out |-> Return(body)]])

\* cleanupTempFile(tmpFile) of evaluation i completes: the evaluation settles
\* (convert_to_signal_strength cleans up its mu file first).
CleanupDone(i) ==
    /\ fnState[i].st = "cleanup"
    /\ LET r == Unlink(St, InputFile(i))
       IN  SetState(IF tool = "convert_to_signal_strength"
                    THEN [r EXCEPT !.fnState[i].st = "cleanupmu"]
                    ELSE Settle(r, i))

\* cleanupTempFile(muFile) completes.
CleanupMuDone(i) ==
    /\ fnState[i].st = "cleanupmu"
    /\ SetState(Settle(Unlink(St, MuFile(i)), i))

Next ==
    \/ Call
    \/ \E i \in DOMAIN fnState : WriteFileDone(i)
    \/ \E i \in DOMAIN fnState : WriteFileFail(i)
    \/ \E i \in DOMAIN fnState : \E outcome \in EngineOutcomes :
          \E mu \in (IF tool = "convert_to_signal_strength" THEN BOOLEAN ELSE {FALSE}) :
              EngineSettle(i, outcome, mu)
    \/ \E i \in DOMAIN fnState : ReadMuDone(i)
    \/ \E i \in DOMAIN fnState : CleanupDone(i)
    \/ \E i \in DOMAIN fnState : CleanupMuDone(i)

Spec == Init /\ [][Next]_vars

\* --------------------------------------------------------------- runLilith
MAX_SUBPROCESS_OUTPUT == 1024 * 1024

SUBPROCESS_TIMEOUT_MS == 60000

\* The lengths of data.toString() for the chunks a process emits.
ChunkLengths == {1, 65536, MAX_SUBPROCESS_OUTPUT - 1, MAX_SUBPROCESS_OUTPUT}

\* The exit codes `close` reports: 0, non-zero, or null (ended by a signal).
ExitCodes == {"0", "1", "null"}

\* if (stdout.length < MAX_SUBPROCESS_OUTPUT) { stdout += data.toString(); }
Capture(captured, chunk) ==
    IF captured < MAX_SUBPROCESS_OUTPUT THEN captured + chunk ELSE captured

\* The text runLilith resolves with, by its length.
Output(length) == [t |-> "stdout", length |-> length]

Resolved(v) == [st |-> "resolved", value |-> v]

Rejected(e) == [st |-> "rejected", value |-> e]

\* resolve(...) or reject(...): without effect on a promise that has settled.
SettlePromise(p, outcome) == IF p.st = "pending" THEN outcome ELSE p

\* clearTimeout(timer)
ClearTimeout(t) == IF t = "armed" THEN "cleared" ELSE t

\* A faulty variant of TimeoutReject: the timer callback only kills the process.
TimeoutKillOnly(p) == p

\* The timer callback after proc.kill(): reject(new Error("... timed out ..."))
TimeoutReject(p) == SettlePromise(p, Rejected(Err("timeout")))

\* runLilith(args) has run its executor: the process is spawned, the handlers
\* are attached, the timer is set.
InitRL ==
    /\ tool = "runLilith"
    /\ args = <<>>
    /\ pc = "running"
    /\ response = Undefined
    /\ files = {}
    /\ fsOps = <<>>
    /\ engineCalls = {}
    /\ log = <<>>
    /\ items = <<>>
    /\ limit = 0
    /\ results = <<>>
    /\ currentIndex = 0
    /\ workers = <<>>
    /\ fnState = <<>>
    /\ fnCalls = <<>>
    /\ slotWrites = <<>>
    /\ plState = "none"
    /\ plValue = Undefined
    /\ proc = [st |-> "running", code |-> "none", killed |-> FALSE, error |-> FALSE]
    /\ stdout = 0
    /\ stderr = 0
    /\ timer = "armed"
    /\ promise = [st |-> "pending", value |-> Undefined]
    /\ clock = 0
    /\ dataEvents = 0
    /\ NoServer

\* proc.stdout.on("data", ...)
StdoutData(chunk) ==
    /\ proc.st = "running"
    /\ dataEvents < MaxDataEvents
    /\ stdout' = Capture(stdout, chunk)
    /\ dataEvents' = dataEvents + 1
    /\ UNCHANGED <<callVars, serverVars, proc, stderr, timer, promise, clock>>

\* proc.stderr.on("data", ...)
StderrData(chunk) ==
    /\ proc.st = "running"
    /\ dataEvents < MaxDataEvents
    /\ stderr' = Capture(stderr, chunk)
    /\ dataEvents' = dataEvents + 1
    /\ UNCHANGED <<callVars, serverVars, proc, stdout, timer, promise, clock>>

\* proc.on("close", ...): both listeners, in the order they were attached.
ProcClose(code) ==
    /\ proc.st = "running"
    /\ proc' = [proc EXCEPT !.st = "closed", !.code = code]
    /\ promise' = SettlePromise(promise, IF code = "0" THEN Resolved(Output(stdout))
                                         ELSE Rejected(Err("exit")))
    /\ timer' = ClearTimeout(timer)
    /\ UNCHANGED <<callVars, serverVars, stdout, stderr, clock, dataEvents>>

\* proc.on("error", ...): the process could not be spawned, or could not be
\* killed; both listeners. The process may or may not emit "close" afterwards.
ProcError ==
    /\ proc.st = "running"
    /\ ~proc.error
    /\ proc' = [proc EXCEPT !.error = TRUE]
    /\ promise' = SettlePromise(promise, Rejected(Err("spawn")))
    /\ timer' = ClearTimeout(timer)
    /\ UNCHANGED <<callVars, serverVars, stdout, stderr, clock, dataEvents>>

\* Time passes, up to the moment the timer is due.
Tick ==
    /\ clock < SUBPROCESS_TIMEOUT_MS
    /\ clock' = Min(clock + SUBPROCESS_TIMEOUT_MS \div MaxTicks, SUBPROCESS_TIMEOUT_MS)
    /\ UNCHANGED <<callVars, serverVars, proc, stdout, stderr, timer, promise, dataEvents>>

\* The setTimeout callback runs: proc.kill(); reject(...). The process may
\* ignore the signal and never close.
TimerFire ==
    /\ timer = "armed"
    /\ clock >= SUBPROCESS_TIMEOUT_MS
    /\ proc' = [proc EXCEPT !.killed = TRUE]
    /\ promise' = TimeoutReject(promise)
    /\ timer' = "fired"
    /\ UNCHANGED <<callVars, serverVars, stdout, stderr, clock, dataEvents>>

NextRL ==
    \/ \E chunk \in ChunkLengths : StdoutData(chunk)
    \/ \E chunk \in ChunkLengths : StderrData(chunk)
    \/ \E code \in ExitCodes : ProcClose(code)
    \/ ProcError
    \/ Tick
    \/ TimerFire

\* The event loop runs a due timer, and time does not stop.
SpecRL == InitRL /\ [][NextRL]_vars /\ WF_vars(Tick) /\ WF_vars(TimerFire)

\* ------------------------------------ the validators and the generators
\* One call of an exported function of utils: `tool` is the function, `args`
\* its arguments, `response` the value returned or the Error thrown.
MaxEntries == 2
MaxChars == 4

NumberInputs ==
    {Undefined, Null, NaN, PosInf, NegInf, Str("5"),
     IntNum(-101), IntNum(-100), Frac(-1, 2), IntNum(0), Frac(1, 2), IntNum(1),
     Frac(11, 10), IntNum(100), IntNum(101), IntNum(1000), IntNum(1001),
     Frac(12509, 100)}

Ranges ==
    {[min |-> IntNum(-100), max |-> IntNum(100)],
     [min |-> IntNum(0), max |-> IntNum(1)],
     [min |-> IntNum(1), max |-> IntNum(1000)]}

ValidatorCalls ==
    {[tool |-> "validateNumber",
      args |-> [value |-> v, name |-> "x", min |-> r.min, max |-> r.max]] :
        v \in NumberInputs, r \in Ranges}
    \cup {[tool |-> f, args |-> [value |-> v, name |-> "x"]] :
            f \in {"validateCoupling", "validateBranchingRatio"}, v \in NumberInputs}
    \cup {[tool |-> "validateMass", args |-> [value |-> v]] : v \in NumberInputs}

FermionKeys == {"Ct", "Cb", "Cc", "Ctau", "Cmu"}

\* CouplingParams: the scaling factors, with any subset of the fermion
\* couplings given, or one of them null or out of range
FermionParams ==
    {Merge([CV |-> cv, CF |-> cf], f) :
        cv \in {Undefined, Frac(13, 10), IntNum(200)},
        cf \in {Undefined, Null, Frac(4, 5)},
        f \in [FermionKeys -> {Undefined, Frac(9, 10)}]
              \cup {[k \in {key} |-> v] : key \in FermionKeys, v \in {Null, IntNum(-101)}}}

PrecisionParams ==
    {[precision |-> p, CV |-> cv] :
        p \in {Undefined, Null, Str("LO"), Str("lo"), Str("NLO"), Str("BEST-QCD"), Str(""),
               IntNum(5)},
        cv \in {Undefined, Frac(13, 10), IntNum(200)}}

LoopInputs == {Undefined, Null, Frac(6, 5), IntNum(100), IntNum(101), NaN, Str("1")}

LoopParams ==
    {[Cg |-> g, Cgamma |-> a, CZgamma |-> z] :
        g \in LoopInputs, a \in LoopInputs, z \in LoopInputs}

MassParams ==
    {[mass |-> m, BRinv |-> i, BRundet |-> u] :
        m \in {Undefined, IntNum(125), IntNum(0), IntNum(1001)},
        i \in {Undefined, Frac(1, 10), IntNum(2)},
        u \in {Undefined, Frac(1, 20), IntNum(-1)}}

CouplingCalls ==
    {[tool |-> "generateReducedCouplingsXML", args |-> p] :
        p \in FermionParams \cup PrecisionParams \cup LoopParams \cup MassParams}

Keys ==
    {<<"ggH", "_", "gammagamma">>, <<"VBF", "_", "ZZ">>, <<"ggH", "_", "invalidDecay">>,
     <<"invalidProd", "_", "gammagamma">>, <<"invalid">>, <<"ggH", "_", "ZZ", "_", "x">>,
     <<"ggH", "_">>, <<"_", "ZZ">>}

Entries ==
    {[key |-> k, value |-> v] :
        k \in Keys, v \in {IntNum(1), IntNum(-100), IntNum(101), NaN, Str("1")}}

\* The objects of at most MaxEntries entries: no key twice
Objects ==
    {[t |-> "object", entries |-> e] :
        e \in {q \in UNION {[1..n -> Entries] : n \in 0..MaxEntries} :
                  \A i, j \in DOMAIN q : q[i].key = q[j].key => i = j}}

SignalStrengthCalls ==
    {[tool |-> "generateSignalStrengthsXML", args |-> [mass |-> m, signalStrengths |-> ss]] :
        m \in {Undefined, IntNum(125), IntNum(5000)},
        ss \in Objects \cup {Undefined, Null, Str("ggH_ZZ"), IntNum(0)}}

Alphabet == {"&", "<", ">", "\"", "'", ";", "a", "l", "t"}

\* The strings of at most MaxChars characters, and some integers
EscapeCalls ==
    {[tool |-> "escapeXml", args |-> [unsafe |-> Chars(c)]] :
        c \in UNION {[1..n -> Alphabet] : n \in 0..MaxChars}}
    \cup {[tool |-> "escapeXml", args |-> [unsafe |-> IntNum(n)]] : n \in {0, 7, 125, -100}}

Chi2Calls ==
    {[tool |-> "lowerIncompleteGamma", args |-> [a |-> a, x |-> x]] :
        a \in Doubles, x \in Doubles}
    \cup {[tool |-> "chi2CDF", args |-> [x |-> x, k |-> k]] : x \in Doubles, k \in Doubles}
    \cup {[tool |-> "chi2PValue", args |-> [chi2 |-> x, ndf |-> k]] :
            x \in Doubles, k \in Doubles}

\* One of the calls is received.
Received(calls) == \E c \in calls : tool = c.tool /\ args = c.args

InitFn ==
    /\ \/ Received(ValidatorCalls)
       \/ Received(CouplingCalls)
       \/ Received(SignalStrengthCalls)
       \/ Received(EscapeCalls)
       \/ Received(Chi2Calls)
    /\ pc = "received"
    /\ response = Undefined
    /\ files = {}
    /\ fsOps = <<>>
    /\ engineCalls = {}
    /\ log = <<>>
    /\ items = <<>>
    /\ limit = 0
    /\ results = <<>>
    /\ currentIndex = 0
    /\ workers = <<>>
    /\ fnState = <<>>
    /\ fnCalls = <<>>
    /\ slotWrites = <<>>
    /\ plState = "none"
    /\ plValue = Undefined
    /\ NoLilith
    /\ NoServer

\* The call returns v or throws the Error v.
Returns(v) == SetState([St EXCEPT !.pc = "done", !.response = v])

CallValidateNumber ==
    /\ tool = "validateNumber" /\ pc = "received"
    /\ Returns(ValidateNumber(args.value, args.name, args.min, args.max))

CallValidateCoupling ==
    /\ tool = "validateCoupling" /\ pc = "received"
    /\ Returns(ValidateCoupling(args.value, args.name))

CallValidateBranchingRatio ==
    /\ tool = "validateBranchingRatio" /\ pc = "received"
    /\ Returns(ValidateBranchingRatio(args.value, args.name))

CallValidateMass ==
    /\ tool = "validateMass" /\ pc = "received"
    /\ Returns(ValidateMass(args.value))

CallGenerateReducedCouplingsXML ==
    /\ tool = "generateReducedCouplingsXML" /\ pc = "received"
    /\ Returns(GenerateReducedCouplingsXML(args))

CallGenerateSignalStrengthsXML ==
    /\ tool = "generateSignalStrengthsXML" /\ pc = "received"
    /\ Returns(GenerateSignalStrengthsXML(args))

CallEscapeXml ==
    /\ tool = "escapeXml" /\ pc = "received"
    /\ Returns(EscapeXml(args.unsafe))

CallLowerIncompleteGamma ==
    /\ tool = "lowerIncompleteGamma" /\ pc = "received"
    /\ \E v \in LowerIncompleteGamma(args.a, args.x) : Returns(v)

CallChi2CDF ==
    /\ tool = "chi2CDF" /\ pc = "received"
    /\ \E v \in Chi2CDF(args.x, args.k) : Returns(v)

\* The value chi2CDF returned to chi2PValue is kept in the log.
CallChi2PValue ==
    /\ tool = "chi2PValue" /\ pc = "received"
    /\ \E r \in Chi2PValue(args.chi2, args.ndf) :
          SetState([St EXCEPT !.pc = "done", !.response = r.p,
                              !.log = <<[call |-> "chi2CDF", returned |-> r.cdf]>>])

NextFn ==
    \/ CallValidateNumber
    \/ CallValidateCoupling
    \/ CallValidateBranchingRatio
    \/ CallValidateMass
    \/ CallGenerateReducedCouplingsXML
    \/ CallGenerateSignalStrengthsXML
    \/ CallEscapeXml
    \/ CallLowerIncompleteGamma
    \/ CallChi2CDF
    \/ CallChi2PValue

SpecFn == InitFn /\ [][NextFn]_vars

\* ------------------------------------------------------------ API cache
\* The cache is the sequence of its entries [key, data, expiry] in the order
\* the Map iterates them. Keys are numbers: key k is the k-th distinct request
\* signature ("hepdata:..." or "cern:...", never the empty string).
CACHE_TTL_MS == 5 * 60 * 1000

\* `if (apiCache.size > 1000)`
CacheSizeLimit == 1000

\* The most cache operations and clock steps of a behaviour
MaxOps == 3

\* No tool call is looked at.
NoCall ==
    /\ args = <<>>
    /\ pc = "idle"
    /\ response = Undefined
    /\ files = {}
    /\ fsOps = <<>>
    /\ engineCalls = {}
    /\ log = <<>>
    /\ items = <<>>
    /\ limit = 0
    /\ results = <<>>
    /\ currentIndex = 0
    /\ workers = <<>>
    /\ fnState = <<>>
    /\ fnCalls = <<>>
    /\ slotWrites = <<>>
    /\ plState = "none"
    /\ plValue = Undefined

\* The position of key in the cache (0 when it has none)
Position(cache, key) ==
    IF \E k \in DOMAIN cache : cache[k].key = key
    THEN CHOOSE k \in DOMAIN cache : cache[k].key = key
    ELSE 0

\* The cache without its k-th entry
Without(cache, k) == SubSeq(cache, 1, k - 1) \o SubSeq(cache, k + 1, Len(cache))

\* apiCache.delete(key)
MapDelete(cache, key) ==
    IF Position(cache, key) = 0 THEN cache ELSE Without(cache, Position(cache, key))

\* apiCache.set(key, entry): a key the Map holds keeps its place
MapSet(cache, key, entry) ==
    IF Position(cache, key) = 0 THEN Append(cache, entry)
    ELSE [cache EXCEPT ![Position(cache, key)] = entry]

\* A faulty variant of GetCached: an entry is served up to and including its
\* expiry time.
GetCachedUntilExpiry(cache, key, t) ==
    LET k == Position(cache, key)
    IN  IF k # 0 /\ t <= cache[k].expiry
        THEN [cache |-> cache, returned |-> cache[k].data]
        ELSE [cache |-> MapDelete(cache, key), returned |-> Null]

\* getCached(key) at time t: the cache afterwards and the value returned
GetCached(cache, key, t) ==
    LET k == Position(cache, key)
    IN  IF k # 0 /\ t < cache[k].expiry
        THEN [cache |-> cache, returned |-> cache[k].data]
        ELSE [cache |-> MapDelete(cache, key), returned |-> Null]

\* A faulty variant of Evicted: only an expired entry is ever removed.
EvictedExpiredOnly(cache, t) ==
    IF \E k \in DOMAIN cache : t >= cache[k].expiry
    THEN CHOOSE k \in DOMAIN cache :
             /\ t >= cache[k].expiry
             /\ \A j \in 1..(k - 1) : t < cache[j].expiry
    ELSE 0

\* A faulty variant of Evicted: the oldest entry is removed, expired or not.
EvictedOldest(cache, t) == IF cache = <<>> THEN 0 ELSE 1

\* The body of `if (apiCache.size > 1000)`: the position of the entry it
\* deletes (0 when none): the first expired entry in iteration order, or else
\* the first entry
Evicted(cache, t) ==
    IF \E k \in DOMAIN cache : t >= cache[k].expiry
    THEN CHOOSE k \in DOMAIN cache :
             /\ t >= cache[k].expiry
             /\ \A j \in 1..(k - 1) : t < cache[j].expiry
    ELSE IF cache = <<>> THEN 0 ELSE 1

\* setCache(key, data) at time t up to apiCache.set: the position of the
\* entry deleted (0 when none)
SetCacheEvicted(cache, t) == IF Len(cache) > CacheSizeLimit THEN Evicted(cache, t) ELSE 0

\* setCache(key, data) at time t: the cache afterwards
SetCache(cache, key, data, t) ==
    LET Set(c) == MapSet(c, key, [key |-> key, data |-> data, expiry |-> t + CACHE_TTL_MS])
        Delete(k) == IF k = 0 THEN cache ELSE Without(cache, k)
    IN  Apply(Set, Apply(Delete, SetCacheEvicted(cache, t)))

\* The parsed body stored by the n-th operation (JSON.parse(data))
Response(n) == [t |-> "response", id |-> n]

\* The keys of the requests: the first two and the last the cache may hold,
\* and one it does not hold at first.
RequestKeys == {1, 2, CacheSizeLimit + 1, CacheSizeLimit + 2}

\* The cache after setCache for the keys 1..n, of which those in `due` were
\* set CACHE_TTL_MS ago or earlier and the others just now.
Filled(n, due, t) ==
    [k \in 1..n |-> [key |-> k, data |-> Response(0),
                     expiry |-> IF k \in due THEN t ELSE t + CACHE_TTL_MS]]

InitCache ==
    /\ tool = "cache"
    /\ NoCall
    /\ NoLilith
    /\ now = 2 * CACHE_TTL_MS
    /\ \E n \in {0, 2, CacheSizeLimit - 1, CacheSizeLimit, CacheSizeLimit + 1} :
          \E due \in {{}, {2}, {1, n}, 1..n} :
              apiCache = Filled(n, due \cap 1..n, now)
    /\ cacheOps = 0
    /\ last = [op |-> "none"]
    /\ scans = <<>>

\* A fetch looks its request up.
CallGetCached(key) ==
    /\ tool = "cache"
    /\ cacheOps < MaxOps
    /\ \E g \in {GetCached(apiCache, key, now)} :
          /\ apiCache' = g.cache
          /\ last' = [op |-> "get", key |-> key, time |-> now, returned |-> g.returned,
                      data |-> Undefined, evicted |-> <<>>, before |-> apiCache]
    /\ cacheOps' = cacheOps + 1
    /\ UNCHANGED <<callVars, lilithVars, now, scans>>

\* A fetch stores the response it parsed; the response is named by the
\* number of the operation.
CallSetCache(key) ==
    /\ tool = "cache"
    /\ cacheOps < MaxOps
    /\ apiCache' = SetCache(apiCache, key, Response(cacheOps + 1), now)
    /\ \E k \in {SetCacheEvicted(apiCache, now)} :
          last' = [op |-> "set", key |-> key, time |-> now, returned |-> Undefined,
                   data |-> Response(cacheOps + 1),
                   evicted |-> IF k = 0 THEN <<>> ELSE <<apiCache[k]>>,
                   before |-> apiCache]
    /\ cacheOps' = cacheOps + 1
    /\ UNCHANGED <<callVars, lilithVars, now, scans>>

\* Time passes between two cache operations.
Advance(ms) ==
    /\ tool = "cache"
    /\ cacheOps < MaxOps
    /\ now' = now + ms
    /\ cacheOps' = cacheOps + 1
    /\ UNCHANGED <<callVars, lilithVars, apiCache, last, scans>>

NextCache ==
    \/ \E key \in RequestKeys : CallGetCached(key)
    \/ \E key \in RequestKeys : CallSetCache(key)
    \/ \E ms \in {1, CACHE_TTL_MS - 1} : Advance(ms)

SpecCache == InitCache /\ [][NextCache]_vars

\* ------------------------------------------- scan calls the server runs
\* The request handler is an async function: a scan call that awaits its
\* parallelLimit leaves the event loop free to start the handler of the next
\* request. Each entry of `scans` is one scan call between its call of
\* parallelLimit and the settling of its last worker. The workers of a call
\* are interchangeable, so the call keeps how many of them wait at each await
\* of fn: `writing` at fs.writeFile, `running` at runLilith, `cleaning` at
\* cleanupTempFile after an output, `failing` at cleanupTempFile after a
\* rejected runLilith.
MaxScans == 2
MaxPoints == 12

\* The numbers of points of the scans called
ScanPoints == {2, MAX_CONCURRENT_SCANS, MAX_CONCURRENT_SCANS + 1}

RECURSIVE SumOver(_, _)
SumOver(calls, field) ==
    IF calls = <<>> THEN 0 ELSE calls[1][field] + SumOver(Tail(calls), field)

\* parallelLimit(scanPoints, MAX_CONCURRENT_SCANS, fn) up to `await
\* Promise.all`: each worker has claimed a point and its fn waits for the
\* document to be written.
StartedScan(n) ==
    [n |-> n, currentIndex |-> NumWorkers(MAX_CONCURRENT_SCANS, n), writing |-> NumWorkers(MAX_CONCURRENT_SCANS, n), running |-> 0,
     cleaning |-> 0, failing |-> 0]

InitServer ==
    /\ tool = "server"
    /\ NoCall
    /\ NoLilith
    /\ NoServer

\* A scan_1d or scan_2d request of n valid points arrives and runs up to its
\* await of parallelLimit.
CallScan(n) ==
    /\ tool = "server"
    /\ Len(scans) < MaxScans
    /\ SumOver(scans, "n") + n <= MaxPoints
    /\ scans' = Append(scans, StartedScan(n))
    /\ UNCHANGED <<callVars, lilithVars, apiCache, now, cacheOps, last>>

\* fs.writeFile of one point of call id resolves: fn calls runLilith, which
\* spawns the process.
PointWritten(id) ==
    /\ tool = "server"
    /\ id \in DOMAIN scans
    /\ scans[id].writing > 0
    /\ scans' = [scans EXCEPT ![id].writing = @ - 1, ![id].running = @ + 1]
    /\ UNCHANGED <<callVars, lilithVars, apiCache, now, cacheOps, last>>

\* runLilith of one point of call id settles: fn goes on to its finally
\* block.
PointEvaluated(id, ok) ==
    /\ tool = "server"
    /\ id \in DOMAIN scans
    /\ scans[id].running > 0
    /\ scans' = IF ok
                THEN [scans EXCEPT ![id].running = @ - 1, ![id].cleaning = @ + 1]
                ELSE [scans EXCEPT ![id].running = @ - 1, ![id].failing = @ + 1]
    /\ UNCHANGED <<callVars, lilithVars, apiCache, now, cacheOps, last>>

\* The scan call without the pool of a call whose last worker has settled
PoolSettled(calls, id) ==
    IF calls[id].writing + calls[id].running + calls[id].cleaning + calls[id].failing = 0
    THEN Without(calls, id)
    ELSE calls

\* cleanupTempFile of a point with an output resolves: fn resolves, the
\* worker records the result and claims the next point if one is left.
PointDone(id) ==
    /\ tool = "server"
    /\ id \in DOMAIN scans
    /\ scans[id].cleaning > 0
    /\ scans' =
          IF scans[id].currentIndex < scans[id].n
          THEN [scans EXCEPT ![id].cleaning = @ - 1, ![id].currentIndex = @ + 1,
                             ![id].writing = @ + 1]
          ELSE PoolSettled([scans EXCEPT ![id].cleaning = @ - 1], id)
    /\ UNCHANGED <<callVars, lilithVars, apiCache, now, cacheOps, last>>

\* cleanupTempFile of a point whose runLilith rejected resolves: fn rejects
\* and the worker claims no more.
PointRejected(id) ==
    /\ tool = "server"
    /\ id \in DOMAIN scans
    /\ scans[id].failing > 0
    /\ scans' = PoolSettled([scans EXCEPT ![id].failing = @ - 1], id)
    /\ UNCHANGED <<callVars, lilithVars, apiCache, now, cacheOps, last>>

NextServer ==
    \/ \E n \in ScanPoints : CallScan(n)
    \/ \E id \in 1..MaxScans : PointWritten(id)
    \/ \E id \in 1..MaxScans, ok \in BOOLEAN : PointEvaluated(id, ok)
    \/ \E id \in 1..MaxScans : PointDone(id)
    \/ \E id \in 1..MaxScans : PointRejected(id)

SpecServer == InitServer /\ [][NextServer]_vars

\* Position of the event e in the log (0 when it has not happened).
LogPos(e) == IF \E k \in DOMAIN log : log[k] = e
             THEN CHOOSE k \in DOMAIN log : log[k] = e
             ELSE 0

\* -------------------------------------------------------------- claims
\* C1: when parallelLimit resolves (limit >= 1, every fn call resolved), the
\* array it returns has the length of items and slot i holds the value that
\* fn(items[i], i) resolved with, whatever the completion order was.
C1_ResultsAtOriginalIndex ==
    plState = "resolved" =>
        /\ DOMAIN plValue = DOMAIN items
        /\ \A i \in DOMAIN items :
              /\ fnState[i].st = "resolved"
              /\ plValue[i] = fnState[i].out
              /\ fnCalls[i] = << <<items[i], i>> >>

\* C1 witness: a resolved call of three or more items in which item 1 settled
\* before item 0 and the two resolved with different values.
C1_Witness ==
    /\ tool = "none"
    /\ plState = "resolved"
    /\ Length(items) >= 3
    /\ LogPos(<<"settled", 1>>) < LogPos(<<"settled", 0>>)
    /\ plValue[0] = Str("v2")
    /\ plValue[1] = Str("v1")

\* C2: at every instant the number of fn invocations started and not yet
\* settled is at most limit.
C2_InFlightAtMostLimit == plState # "none" => Cardinality(InFlight) <= limit

\* C2 witness: 6 items under a cap of 2, the pool refilled and full again.
C2_Witness ==
    /\ tool = "none"
    /\ Length(items) = 6
    /\ limit = 2
    /\ currentIndex = 4
    /\ Cardinality(InFlight) = 2

\* C3: no index is claimed twice or skipped: fn has been invoked exactly once,
\* with (items[i], i), for every index below currentIndex and never for one at
\* or above it, no two workers await the same index, no slot is written twice,
\* and when parallelLimit resolves every index was claimed and written once.
C3_EachIndexClaimedOnce ==
    plState # "none" =>
        /\ \A i \in DOMAIN items :
              /\ Len(fnCalls[i]) = (IF i < currentIndex THEN 1 ELSE 0)
              /\ slotWrites[i] <= 1
              /\ slotWrites[i] = 1 <=> fnState[i].st = "resolved"
        /\ \A v, w \in DOMAIN workers :
              (v # w /\ workers[v].st = "await" /\ workers[w].st = "await")
                  => workers[v].index # workers[w].index
        /\ plState = "resolved" =>
              /\ currentIndex = Length(items)
              /\ \A i \in DOMAIN items : Len(fnCalls[i]) = 1 /\ slotWrites[i] = 1

\* C3 witness: a resolved call in which a worker claimed more than one index.
C3_Witness ==
    /\ tool = "none"
    /\ plState = "resolved"
    /\ Length(items) = 5
    /\ limit = 2
    /\ \A i \in DOMAIN items : slotWrites[i] = 1

\* C24: parallelLimit terminates. For an empty list it resolves at once to an
\* empty array and fn is never invoked; for a non-empty list and limit >= 1,
\* when every fn invocation eventually resolves, parallelLimit eventually
\* resolves, and it has resolved only when every item was processed and its
\* slot filled.
C24_ParallelLimitTerminates ==
    /\ <>(plState = "resolved")
    /\ [](plState = "resolved" =>
             /\ DOMAIN plValue = DOMAIN items
             /\ \A i \in DOMAIN items :
                   /\ fnState[i].st = "resolved"
                   /\ slotWrites[i] = 1
                   /\ plValue[i] # Hole)
    /\ []((plState # "none" /\ Length(items) = 0) =>
             /\ plState = "resolved"
             /\ Length(plValue) = 0
             /\ fnCalls = <<>>)

\* C24 witness: a call of six items under a cap of two has resolved, every fn
\* invocation having resolved.
C24_Witness ==
    /\ tool = "none"
    /\ plState = "resolved"
    /\ Length(items) = 6
    /\ limit = 2
    /\ \A i \in DOMAIN items : fnState[i].st = "resolved" /\ plValue[i] # Hole

RejectedWorkers == {w \in DOMAIN workers : workers[w].st = "rejected"}

RejectedItems == {i \in DOMAIN fnState : fnState[i].st = "rejected"}

\* C29: when fn rejects for an item, parallelLimit rejects with that error
\* and the worker that awaited it claims nothing more (one rejected item per
\* rejected worker); the other workers go on: as long as a worker is left
\* that saw no rejection, the call comes to rest only with every item
\* claimed; once every worker saw a rejection nothing is in flight and the
\* unclaimed items stay unprocessed.
C29_RejectionStopsOneWorker ==
    (tool = "none" /\ plState # "none") =>
        /\ RejectedItems # {} <=> plState = "rejected"
        /\ plState = "rejected" => plValue = Err("fn")
        /\ Cardinality(RejectedWorkers) = Cardinality(RejectedItems)
        /\ (InFlight = {} /\ RejectedWorkers # DOMAIN workers)
              => currentIndex = Length(items)
        /\ RejectedWorkers = DOMAIN workers =>
              /\ InFlight = {}
              /\ \A i \in DOMAIN items :
                    i >= currentIndex =>
                        fnState[i].st = "pending" /\ fnCalls[i] = <<>> /\ results[i] = Hole

\* C29 witness: four items under a cap of two; item 0 rejected before
\* anything else settled, so parallelLimit had rejected when the other worker
\* claimed items 2 and 3, which both resolved.
C29_Witness ==
    /\ tool = "none"
    /\ Length(items) = 4
    /\ limit = 2
    /\ plState = "rejected"
    /\ Len(log) >= 1 /\ log[1] = <<"settled", 0>>
    /\ fnState[0].st = "rejected"
    /\ fnState[2].st = "resolved"
    /\ fnState[3].st = "resolved"

\* ------------------------------------------------------ claims on scans
\* A scan that passed validation and generated its points.
ScanStarted == tool \in ScanTools /\ plState # "none"

\* Point i has reached a terminal state.
Terminal(i) == fnState[i].st \in {"resolved", "rejected"}

\* The Engine of point i printed a likelihood.
Present(i) == fnState[i].st = "resolved" /\ fnState[i].out # Null

\* Point i is absent: its Engine invocation failed or its output did not match.
Absent(i) ==
    \/ fnState[i].st = "resolved" /\ fnState[i].out = Null
    \/ fnState[i].st = "rejected" /\ fnState[i].out \in EngineFailures

\* C4: a point whose Engine invocation fails or whose output does not match
\* is recorded absent and does not abort the scan: a scan is never answered
\* with the Engine failure of a point, and once every point is present or
\* absent and at least one is present the scan has answered with a success.
C4_AbsentPointDoesNotAbortScan ==
    ScanStarted =>
        /\ (pc = "done" /\ response.isError) => response.error \notin EngineFailures
        /\ ((\A i \in DOMAIN items : Present(i) \/ Absent(i))
               /\ (\E i \in DOMAIN items : Present(i)))
              => pc = "done" /\ ~response.isError

\* C5: a scan in which every point is absent has ended as an error response,
\* and no scan ends as a success with an empty result list.
C5_AllAbsentIsFailure ==
    tool \in ScanTools =>
        /\ (pc = "done" /\ ~response.isError) => Len(response.body.results) >= 1
        /\ (plState # "none" /\ \A i \in DOMAIN items : Absent(i))
              => pc = "done" /\ response.isError

\* C5 witness: a 2 x 2 scan in which no output matched the likelihood pattern.
C5_Witness ==
    /\ tool = "scan_2d"
    /\ Length(items) = 4
    /\ \A i \in DOMAIN items : fnState[i] = [st |-> "resolved", out |-> Null]
    /\ pc = "done"
    /\ response = ErrorResponse(Err("All scan points failed"))

\* C6: a scan produces its response only after every generated point has
\* reached a terminal state.
C6_RespondsAfterEveryPointTerminal ==
    (ScanStarted /\ pc = "done") => \A i \in DOMAIN items : Terminal(i)

\* A scan that has answered with a success.
ScanSucceeded == tool \in ScanTools /\ pc = "done" /\ ~response.isError

\* The indices of the present points, and the k-th of them in generation order.
PresentPoints == {i \in DOMAIN items : Present(i)}

NthPresent(k) ==
    CHOOSE i \in PresentPoints : Cardinality({j \in PresentPoints : j < i}) = k - 1

\* C7: the result list of a scan is in grid generation order: entry k is the
\* k-th present point in generation order, with that point's coordinates; in
\* a 2-D scan the index pairs (i, j) ascend row by row; a 1-D scan whose
\* points all succeeded has exactly `steps` entries of ascending coordinate.
C7_ResultsInGenerationOrder ==
    ScanSucceeded =>
        LET res == response.body.results
        IN  /\ Len(res) = Cardinality(PresentPoints)
            /\ \A k \in DOMAIN res :
                  IF tool = "scan_1d"
                  THEN res[k].value = items[NthPresent(k)].value
                  ELSE /\ res[k].x = items[NthPresent(k)].val1
                       /\ res[k].y = items[NthPresent(k)].val2
            /\ tool = "scan_2d" =>
                  \A k \in 1..(Len(res) - 1) :
                      LET p == items[NthPresent(k)]
                          q == items[NthPresent(k + 1)]
                      IN  p.i < q.i \/ (p.i = q.i /\ p.j < q.j)
            /\ (tool = "scan_1d" /\ \A i \in DOMAIN items : Present(i)) =>
                  /\ IntNum(Len(res)) = args.param.steps
                  /\ \A k \in 1..(Len(res) - 1) : NumLt(res[k].value, res[k + 1].value)

\* The coordinate v is a finite number of the axis range, as the
\* specification wants it.
OnAxis(v, axis) == IsFinite(v) /\ NumGe(v, axis.min) /\ NumLe(v, axis.max)

\* C27: for every axis that passed validation, steps = 1 included, the scan
\* generates exactly `steps` points per axis with the zero-based indices
\* 0..steps-1, whose coordinates are finite and within [min, max], the first
\* equal to min and, for steps >= 2, the last equal to max. Fails: with
\* steps = 1 the step size is a division by zero and the coordinate is NaN.
C27_GridCoversAxis ==
    ScanStarted =>
        IF tool = "scan_1d"
        THEN LET axis == args.param
             IN  /\ IntNum(Length(items)) = axis.steps
                 /\ \A i \in DOMAIN items :
                       items[i].index = i /\ OnAxis(items[i].value, axis)
                 /\ items[0].value = axis.min
                 /\ NumGe(axis.steps, IntNum(2)) =>
                       items[Length(items) - 1].value = axis.max
        ELSE LET axis1 == args.param1
                 axis2 == args.param2
             IN  /\ IntNum(Length(items)) = NumMul(axis1.steps, axis2.steps)
                 /\ \A k \in DOMAIN items :
                       /\ NumLt(IntNum(items[k].i), axis1.steps)
                       /\ NumLt(IntNum(items[k].j), axis2.steps)
                       /\ OnAxis(items[k].val1, axis1)
                       /\ OnAxis(items[k].val2, axis2)
                 /\ \A k, l \in DOMAIN items :
                       (items[k].i = items[l].i /\ items[k].j = items[l].j) => k = l
                 /\ items[0].val1 = axis1.min /\ items[0].val2 = axis2.min
                 /\ NumGe(axis1.steps, IntNum(2)) =>
                       items[Length(items) - 1].val1 = axis1.max
                 /\ NumGe(axis2.steps, IntNum(2)) =>
                       items[Length(items) - 1].val2 = axis2.max

\* The likelihoods a successful scan reports, in order.
ReportedLikelihoods ==
    [k \in DOMAIN response.body.results |-> response.body.results[k].likelihood]

\* The number of reported results whose deltaLikelihood is 0.
ZeroDeltas ==
    Cardinality({k \in DOMAIN response.body.results :
                    response.body.results[k].deltaLikelihood = IntNum(0)})

BoundValid(v) ==
    IsNumber(v) /\ IsFinite(v) /\ NumGe(v, IntNum(-100)) /\ NumLe(v, IntNum(100))

\* A scan axis is valid: both bounds valid, steps a finite number in
\* [1, maxSteps], and min < max.
AxisValid(axis, maxSteps) ==
    /\ BoundValid(axis.min)
    /\ BoundValid(axis.max)
    /\ IsNumber(axis.steps) /\ IsFinite(axis.steps)
    /\ NumGe(axis.steps, IntNum(1)) /\ NumLe(axis.steps, IntNum(maxSteps))
    /\ NumLt(axis.min, axis.max)

ScanRequestValid ==
    IF tool = "scan_1d" THEN AxisValid(args.param, 1000)
    ELSE AxisValid(args.param1, 100) /\ AxisValid(args.param2, 100)

\* C9: a scan validates its axes before any work: when an axis is invalid
\* the call has ended with an error response, no point was generated, no
\* file written or removed and the Engine never invoked; an accepted scan
\* has at most 1000 (1-D) or 100 x 100 (2-D) points and invokes the Engine
\* for its points only.
C9_AxisValidatedBeforeAnyWork ==
    (tool \in ScanTools /\ pc # "received") =>
        IF ~ScanRequestValid
        THEN /\ pc = "done" /\ response.isError
             /\ response.error.kind \in {"validation", "min >= max"}
             /\ plState = "none" /\ items = <<>> /\ fnCalls = <<>>
             /\ fsOps = <<>> /\ files = {}
             /\ engineCalls = {}
        ELSE /\ plState # "none"
             /\ IF tool = "scan_1d"
                THEN /\ Length(items) <= Ceil(args.param.steps)
                     /\ Ceil(args.param.steps) <= 1000
                ELSE /\ Length(items) <= Ceil(args.param1.steps) * Ceil(args.param2.steps)
                     /\ Ceil(args.param1.steps) <= 100
                     /\ Ceil(args.param2.steps) <= 100
             /\ \A c \in engineCalls : c.eval \in DOMAIN items

\* C9 witness: a 1-D scan with valid bounds and steps = 1001 was refused with
\* nothing generated, written or run.
C9_Witness ==
    /\ tool = "scan_1d"
    /\ BoundValid(args.param.min) /\ BoundValid(args.param.max)
    /\ args.param.steps = IntNum(1001)
    /\ pc = "done"
    /\ response = ErrorResponse(ValidationError("param.steps", "range"))
    /\ items = <<>> /\ fsOps = <<>> /\ engineCalls = {}

\* The dataset selector the request asks for, when it names one.
RequestedDataset ==
    IF "expInput" \in DOMAIN args /\ Truthy(args.expInput) THEN args.expInput
    ELSE Str("data/latest.list")

\* C10: the Engine is never invoked with a dataset selector outside
\* data/latest.list, data/latestRun2.list, data/finalRun1.list: every tool
\* but compute_likelihood and compute_sm_likelihood passes data/latest.list;
\* these two pass the requested selector, and for a selector outside the
\* three they never invoke the Engine and answer with an error, which once
\* the input file is written is the dataset validation failure.
C10_EngineDatasetWhitelisted ==
    LET whitelist == {Str("data/latest.list"), Str("data/latestRun2.list"),
                      Str("data/finalRun1.list")}
    IN  /\ \A c \in engineCalls : c.expInput \in whitelist
        /\ tool \notin {"compute_likelihood", "compute_sm_likelihood"} =>
              \A c \in engineCalls : c.expInput = Str("data/latest.list")
        /\ tool \in {"compute_likelihood", "compute_sm_likelihood"} =>
              /\ \A c \in engineCalls : c.expInput = RequestedDataset
              /\ RequestedDataset \notin whitelist =>
                    /\ engineCalls = {}
                    /\ pc = "done" => response.isError
                    /\ (pc = "done" /\ InputFile(0) \in DOMAIN fsOps) =>
                          response = ErrorResponse(Err("Invalid experimental input file"))

\* C10 witness: compute_likelihood asked for ../../etc/passwd has answered
\* with the dataset validation failure and the Engine was not invoked.
C10_Witness ==
    /\ tool = "compute_likelihood"
    /\ args.expInput = Str("../../etc/passwd")
    /\ pc = "done"
    /\ response = ErrorResponse(Err("Invalid experimental input file"))
    /\ engineCalls = {}

\* ------------------------------------------- claims on every tool call
\* The error of a response is a validation failure: not an Engine failure, a
\* file-system failure or the failure of a scan without a present point.
ValidationFailure(e) ==
    e.kind \notin {"exit", "spawn", "timeout", "writeFile", "All scan points failed"}

\* C11: a call that ends in a validation failure has had no side effect: no
\* temp file was written or removed and the Engine was not invoked.
C11_ValidationBeforeSideEffects ==
    (tool # "none" /\ pc = "done" /\ response.isError /\ ValidationFailure(response.error))
        => fsOps = <<>> /\ files = {} /\ engineCalls = {}

\* How often file f was written, and how often it was unlinked.
Writes(f) == IF f \in DOMAIN fsOps THEN fsOps[f].writes ELSE 0

Unlinks(f) == IF f \in DOMAIN fsOps THEN fsOps[f].unlinks ELSE 0

LikelihoodTools ==
    {"compute_likelihood", "compute_sm_likelihood", "analyze_2hdm",
     "analyze_singlet_extension"}

\* The likelihood a successful response of such a tool reports.
ReportedLikelihood ==
    IF tool = "compute_sm_likelihood" THEN response.body.smLikelihood
    ELSE response.body.likelihood

\* C15: in a single-evaluation call an Engine invocation that fails, times
\* out or prints no likelihood ends in an error response: a call whose Engine
\* invocation was rejected has answered with isError, and a success response
\* always reports a likelihood.
C15_EngineErrorIsHardFailure ==
    (tool \in LikelihoodTools /\ pc = "done") =>
        /\ (\E i \in DOMAIN fnState : fnState[i].out \in EngineFailures) => response.isError
        /\ ~response.isError => ReportedLikelihood # Null

\* --------------------------------------------------- claims on runLilith
\* C13: every runLilith invocation eventually settles and settles once: it
\* resolves with the captured stdout when the process closed with code 0
\* first, rejects when it closed with another code or emitted "error" first,
\* and rejects with the timeout error when the timer fired first, whether or
\* not the killed process ever closes; once settled it never changes.
C13_RunLilithSettlesOnce ==
    /\ <>(promise.st # "pending")
    /\ [][promise.st # "pending" => promise' = promise]_vars
    /\ [](/\ promise.st = "resolved" =>
                (proc.st = "closed" /\ proc.code = "0" /\ promise.value = Output(stdout))
          /\ promise = Rejected(Err("exit")) => (proc.st = "closed" /\ proc.code # "0")
          /\ promise = Rejected(Err("spawn")) => proc.error
          /\ promise = Rejected(Err("timeout")) =>
                (timer = "fired" /\ proc.killed /\ clock >= SUBPROCESS_TIMEOUT_MS)
          /\ promise.st \in {"pending", "resolved", "rejected"}
          /\ (proc.st = "closed" \/ proc.error \/ timer # "armed") => promise.st # "pending")

\* C13 witness: the timeout has passed, the process was killed but has not
\* closed, and the invocation is rejected with the timeout error.
C13_Witness ==
    /\ tool = "runLilith"
    /\ proc.st = "running" /\ proc.killed /\ ~proc.error
    /\ clock = SUBPROCESS_TIMEOUT_MS
    /\ promise = Rejected(Err("timeout"))

\* C14: the captured stdout and the captured stderr never exceed
\* MAX_SUBPROCESS_OUTPUT characters.
C14_CapturedOutputBounded ==
    tool = "runLilith" => (stdout <= MAX_SUBPROCESS_OUTPUT /\ stderr <= MAX_SUBPROCESS_OUTPUT)

\* ------------------------- claims on the validators and the generators
Returned(f) == tool = f /\ pc = "done"

InRange(v, min, max) == IsNumber(v) /\ IsFinite(v) /\ NumGe(v, min) /\ NumLe(v, max)

\* An entry as the specification wants it: production mode, underscore, decay
\* mode, and a finite value in [-100, 100].
EntryValid(e) ==
    /\ \E p \in ALLOWED_PRODUCTION_MODES, d \in ALLOWED_DECAY_MODES : e.key = <<p, "_", d>>
    /\ InRange(e.value, IntNum(-100), IntNum(100))

MassValid(m) == m \in {Undefined, Null} \/ InRange(m, IntNum(1), IntNum(1000))

EveryEntryValid ==
    \A k \in DOMAIN args.signalStrengths.entries : EntryValid(args.signalStrengths.entries[k])

\* C16 as stated: generateSignalStrengthsXML, given a mapping, returns a
\* document if and only if every entry of the mapping is valid, and throws
\* otherwise. Fails: a mapping of valid entries with a mass outside [1, 1000]
\* throws.
C16_DocumentIffEveryEntryValid ==
    (Returned("generateSignalStrengthsXML") /\ args.signalStrengths.t = "object") =>
        /\ response.t = "xml" <=> EveryEntryValid
        /\ response.t # "xml" => IsError(response)

\* C16 amended: generateSignalStrengthsXML returns a document if and only if
\* the mass is absent or a finite number in [1, 1000], signalStrengths is an
\* object and every entry is valid; the document then holds one element per
\* entry, in order; otherwise the call throws and nothing is returned.
C16_AllOrNothing ==
    Returned("generateSignalStrengthsXML") =>
        /\ response.t = "xml" <=>
              /\ MassValid(args.mass)
              /\ args.signalStrengths.t = "object"
              /\ EveryEntryValid
        /\ response.t = "xml" =>
              /\ DOMAIN response.mu = DOMAIN args.signalStrengths.entries
              /\ \A k \in DOMAIN response.mu :
                    /\ response.mu[k].value = args.signalStrengths.entries[k].value
                    /\ <<response.mu[k].prod[1], "_", response.mu[k].decay[1]>>
                          = args.signalStrengths.entries[k].key
        /\ response.t # "xml" => IsError(response)

\* A mapping whose first entry is valid and whose second is not: the call throws.
C16_Witness ==
    /\ Returned("generateSignalStrengthsXML")
    /\ MassValid(args.mass)
    /\ args.signalStrengths.t = "object"
    /\ Len(args.signalStrengths.entries) = 2
    /\ EntryValid(args.signalStrengths.entries[1])
    /\ ~EntryValid(args.signalStrengths.entries[2])
    /\ IsError(response)

\* A parameter counts as supplied when it is neither undefined nor null.
Supplied(key) == Get(args, key) \notin {Undefined, Null}

SuppliedOr(key, fallback) == IF Supplied(key) THEN Get(args, key) ELSE fallback

FermionFields ==
    {<<"Ct", "tt">>, <<"Cb", "bb">>, <<"Cc", "cc">>, <<"Ctau", "tautau">>, <<"Cmu", "mumu">>}

\* C17: in a document of generateReducedCouplingsXML every fermion coupling
\* (tt, bb, cc, tautau, mumu) is its explicit value when supplied, else CF when
\* supplied, else 1.0; ZZ and WW are CV when supplied, else 1.0. With
\* {CV: 1.3, CF: 0.8} the vector fields are 1.3 and the fermion fields 0.8.
C17_CouplingFallbacks ==
    (Returned("generateReducedCouplingsXML") /\ response.t = "xml") =>
        /\ \A kf \in FermionFields :
              response[kf[2]] = SuppliedOr(kf[1], SuppliedOr("CF", IntNum(1)))
        /\ response.ZZ = SuppliedOr("CV", IntNum(1))
        /\ response.WW = SuppliedOr("CV", IntNum(1))
        /\ (/\ Get(args, "CV") = Frac(13, 10) /\ Get(args, "CF") = Frac(4, 5)
            /\ \A k \in FermionKeys : ~Supplied(k))
           => /\ response.ZZ = Frac(13, 10) /\ response.WW = Frac(13, 10)
              /\ \A kf \in FermionFields : response[kf[2]] = Frac(4, 5)

\* A document for {CV: 1.3, CF: 0.8, Ct: 0.9}: Ct overrides CF for tt only.
C17_Witness ==
    /\ Returned("generateReducedCouplingsXML") /\ response.t = "xml"
    /\ Get(args, "CV") = Frac(13, 10) /\ Get(args, "CF") = Frac(4, 5)
    /\ Get(args, "Ct") = Frac(9, 10)
    /\ \A k \in FermionKeys \ {"Ct"} : ~Supplied(k)
    /\ response.tt = Frac(9, 10)
    /\ response.bb = Frac(4, 5) /\ response.mumu = Frac(4, 5)
    /\ response.ZZ = Frac(13, 10)

CouplingKeys == FermionKeys \cup {"CV", "CF", "Cg", "Cgamma", "CZgamma"}

\* The numeric parameters as the specification wants them: each absent, or a
\* finite number in the range of its kind.
NumbersValid ==
    /\ MassValid(Get(args, "mass"))
    /\ \A k \in CouplingKeys :
          Supplied(k) => InRange(Get(args, k), IntNum(-100), IntNum(100))
    /\ \A k \in {"BRinv", "BRundet"} :
          Supplied(k) => InRange(Get(args, k), IntNum(0), IntNum(1))

\* C18: generateReducedCouplingsXML never fails because of the precision
\* field: it throws exactly when a numeric parameter is invalid, whatever the
\* precision; the precision emitted is "LO" when the input is exactly "LO" and
\* "BEST-QCD" for every other input.
C18_PrecisionWhitelisted ==
    Returned("generateReducedCouplingsXML") =>
        /\ IsError(response) <=> ~NumbersValid
        /\ ~IsError(response) =>
              /\ response.t = "xml"
              /\ response.precision \in {Str("LO"), Str("BEST-QCD")}
              /\ response.precision = Str("LO") <=> Get(args, "precision") = Str("LO")

\* A document for a precision that is a string other than "LO".
C18_Witness ==
    /\ Returned("generateReducedCouplingsXML")
    /\ Get(args, "precision") = Str("lo")
    /\ response.t = "xml"
    /\ response.precision = Str("BEST-QCD")

LoopFields == {<<"Cg", "gg">>, <<"Cgamma", "gammagamma">>, <<"CZgamma", "Zgamma">>}

\* C19: a loop-induced element (gg, gammagamma, Zgamma) is in the document if
\* and only if its parameter (Cg, Cgamma, CZgamma) is supplied, and then holds
\* the supplied value, which is in [-100, 100]; a supplied parameter that is
\* not a finite number in [-100, 100] makes the call throw.
C19_LoopElementIffSupplied ==
    Returned("generateReducedCouplingsXML") =>
        /\ response.t = "xml" =>
              \A kf \in LoopFields :
                 /\ response[kf[2]] # Undefined <=> Supplied(kf[1])
                 /\ Supplied(kf[1]) =>
                       /\ response[kf[2]] = Get(args, kf[1])
                       /\ InRange(response[kf[2]], IntNum(-100), IntNum(100))
        /\ (\E kf \in LoopFields :
               Supplied(kf[1]) /\ ~InRange(Get(args, kf[1]), IntNum(-100), IntNum(100)))
           => IsError(response)

\* A document with Cg supplied and Cgamma and CZgamma not: gg only.
C19_Witness ==
    /\ Returned("generateReducedCouplingsXML")
    /\ Get(args, "Cg") = Frac(6, 5)
    /\ Get(args, "Cgamma") = Undefined
    /\ Get(args, "CZgamma") = Null
    /\ response.t = "xml"
    /\ response.gg = Frac(6, 5)
    /\ response.gammagamma = Undefined
    /\ response.Zgamma = Undefined

\* The range and the value for an absent argument of each validator
\* (Undefined: none, the argument is validated).
RangeOf ==
    [validateNumber |-> [min |-> Get(args, "min"), max |-> Get(args, "max"),
                         absent |-> Undefined],
     validateCoupling |-> [min |-> IntNum(-100), max |-> IntNum(100), absent |-> NaN],
     validateBranchingRatio |-> [min |-> IntNum(0), max |-> IntNum(1), absent |-> NaN],
     validateMass |-> [min |-> IntNum(1), max |-> IntNum(1000),
                       absent |-> Frac(12509, 100)]]

\* C20: validateNumber throws if and only if the value is not a finite number
\* or lies outside [min, max], and returns the value unchanged otherwise, the
\* bounds included. validateCoupling and validateBranchingRatio return NaN and
\* validateMass returns 125.09 for undefined and null, and behave as
\* validateNumber on [-100, 100], [0, 1] and [1, 1000] for any other value.
C20_ValidatorsFailIffOutOfRange ==
    (tool \in DOMAIN RangeOf /\ pc = "done") =>
        LET r == RangeOf[tool]
        IN  IF r.absent # Undefined /\ args.value \in {Undefined, Null}
            THEN response = r.absent
            ELSE /\ IsError(response) <=> ~InRange(args.value, r.min, r.max)
                 /\ ~IsError(response) => response = args.value

\* validateNumber returned a value equal to its upper bound.
C20_Witness ==
    /\ Returned("validateNumber")
    /\ args.value = args.max
    /\ response = args.value

Special == {"&", "<", ">", "\"", "'"}

\* The entity of a special character; any other character stands for itself.
EntityOf(ch) ==
    CASE ch = "&" -> AMP [] ch = "<" -> LT [] ch = ">" -> GT
      [] ch = "\"" -> QUOT [] ch = "'" -> APOS [] OTHER -> <<ch>>

RECURSIVE EscapedOnce(_)
\* Every character of str escaped exactly once
EscapedOnce(str) ==
    IF str = <<>> THEN <<>> ELSE EntityOf(Head(str)) \o EscapedOnce(Tail(str))

BeginsEntity(str, k) ==
    \E e \in {AMP, LT, GT, QUOT, APOS} :
        k + Len(e) - 1 <= Len(str) /\ SubSeq(str, k, k + Len(e) - 1) = e

\* C21: the output of escapeXml holds no raw '<', '>', '"' or apostrophe, and
\* every '&' in it begins one of the five entities; every input character is
\* escaped exactly once; an input without special characters is returned
\* unchanged.
C21_EscapedExactlyOnce ==
    Returned("escapeXml") =>
        \E in \in {String(args.unsafe)}, out \in {response.c} :
            /\ \A k \in DOMAIN out : out[k] \notin {"<", ">", "\"", "'"}
            /\ \A k \in DOMAIN out : out[k] = "&" => BeginsEntity(out, k)
            /\ out = EscapedOnce(in)
            /\ (\A k \in DOMAIN in : in[k] \notin Special) => out = in

\* The input "<&" : each of the two characters is escaped once.
C21_Witness ==
    /\ Returned("escapeXml")
    /\ args.unsafe = Chars(<<"<", "&">>)
    /\ response = Chars(LT \o AMP)

\* ----------------------------------------------- claims on error responses
\* C22: a failing tool call answers isError with a message as its only
\* payload, and the message holds no stack trace and no internal path
\* information, content of the Engine's stderr included. Fails: the message
\* of a non-zero exit of the Engine embeds the captured stderr.
C22_ErrorCarriesMessageOnly ==
    (tool \in ScanTools \cup SingleTools /\ pc = "done" /\ response.isError) =>
        /\ DOMAIN ErrorBody(response) = {"error"}
        /\ \A k \in DOMAIN ErrorBody(response).error :
              ErrorBody(response).error[k] \notin {"stderr", "path", "stack"}

\* C23: chi2PValue(chi2, ndf) is 1 - chi2CDF(chi2, ndf); chi2CDF returns 0
\* for every x <= 0, so that chi2PValue(0, k) is 1 for k > 0;
\* lowerIncompleteGamma returns 0 for x <= 0 and a value in [0, 1] for every
\* x > 0 with a > 0. Fails: lowerIncompleteGamma can return NaN for finite
\* a > 0 and x > 0.
C23_PValueIsOneMinusCDF ==
    /\ Returned("chi2PValue") =>
          /\ response \in OneMinus(log[1].returned)
          /\ (args.chi2 = "zero" /\ args.ndf \in {"pos", "inf"}) => response = "one"
    /\ Returned("chi2CDF") =>
          (args.x \in {"ninf", "neg", "zero"} => response = "zero")
    /\ Returned("lowerIncompleteGamma") =>
          /\ args.x \in {"ninf", "neg", "zero"} => response = "zero"
          /\ (args.x = "pos" /\ args.a = "pos") => response \in {"zero", "unit", "one"}

\* ------------------------------------------------- claims on the API cache
KeysOf(cache) == {cache[k].key : k \in DOMAIN cache}

ExpiredAt(entry, t) == t >= entry.expiry

\* C25: the cache never holds more than 1001 entries: setCache deletes exactly
\* one entry before it inserts when the cache holds more than 1000 entries and
\* none otherwise, and then holds one entry for the key.
C25_CacheBounded ==
    tool = "cache" =>
        /\ Len(apiCache) <= 1001
        /\ last.op = "set" =>
              \E kept \in {KeysOf(last.before) \ {last.evicted[k].key : k \in DOMAIN last.evicted}} :
                  /\ Len(last.evicted) = (IF Len(last.before) > 1000 THEN 1 ELSE 0)
                  /\ Len(apiCache) = Cardinality(kept \cup {last.key})
                  /\ KeysOf(apiCache) = kept \cup {last.key}

\* C25 witness: setCache of a new key on a cache of 1001 entries: one entry
\* was deleted and the cache holds 1001 entries again.
C25_Witness ==
    /\ tool = "cache"
    /\ last.op = "set"
    /\ Len(last.before) = 1001
    /\ last.key \notin KeysOf(last.before)
    /\ Len(last.evicted) = 1
    /\ Len(apiCache) = 1001

\* C26: when setCache evicts, it deletes the first expired entry in
\* insertion order when some entry is expired, and the oldest-inserted entry
\* only when none is; an entry that is not expired is never evicted while an
\* expired one is in the cache.
C26_ExpiredEvictedFirst ==
    (tool = "cache" /\ last.op = "set" /\ last.evicted # <<>>) =>
        \E before \in {last.before}, gone \in {last.evicted[1]} :
            LET expired == {k \in DOMAIN before : ExpiredAt(before[k], last.time)}
            IN  /\ expired # {} =>
                      \E k \in expired : gone = before[k] /\ \A j \in expired : k <= j
                /\ expired = {} => gone = before[1]
                /\ ~ExpiredAt(gone, last.time) => expired = {}

\* C26 witness: the second entry was expired and the oldest was not; the
\* second was evicted.
C26_Witness ==
    /\ tool = "cache"
    /\ last.op = "set"
    /\ last.evicted # <<>>
    /\ last.evicted[1] = last.before[2]
    /\ ~ExpiredAt(last.before[1], last.time)
    /\ ExpiredAt(last.before[2], last.time)

\* C28: getCached returns the stored data only while now < expiry, and the
\* expiry of an entry is 5 minutes after the setCache that stored it; a
\* lookup of an expired or missing key returns null and leaves no entry for
\* the key.
C28_NoExpiredValueServed ==
    tool = "cache" =>
        /\ last.op = "get" =>
              \E before \in {last.before} :
                  LET held == {k \in DOMAIN before : before[k].key = last.key}
                      live == {k \in held : last.time < before[k].expiry}
                  IN  /\ live # {} =>
                            /\ \E k \in live : last.returned = before[k].data
                            /\ apiCache = before
                      /\ live = {} =>
                            /\ last.returned = Null
                            /\ last.key \notin KeysOf(apiCache)
                            /\ Len(apiCache) = Len(before) - Cardinality(held)
        /\ last.op = "set" =>
              \E k \in DOMAIN apiCache :
                  /\ apiCache[k].key = last.key
                  /\ apiCache[k].expiry = last.time + 300000
                  /\ apiCache[k].data = last.data

\* C28 witness: a lookup at the very expiry time of an entry: null, and the
\* entry is gone.
C28_Witness ==
    /\ tool = "cache"
    /\ last.op = "get"
    /\ \E k \in DOMAIN last.before :
          last.before[k].key = last.key /\ last.before[k].expiry = last.time
    /\ last.returned = Null
    /\ last.key \notin KeysOf(apiCache)

\* ---------------------------------------- claims on concurrent scan calls
\* The Engine invocations in flight over all scan calls
EnginesInFlight == SumOver(scans, "running")

\* C30: at any instant the number of Engine invocations in flight, counted
\* over all the scan calls the server is executing, is at most 10.
C30_AtMostTenEnginesInFlight == tool = "server" => EnginesInFlight <= 10

====
